---- MODULE Spec2Model ----
(***************************************************************************)
(* Reconciliation engine of ledger-live-common (reconciliation.ts):        *)
(* the minimal operations builder with its step builder, the account and   *)
(* sub-account patchers and the balance-history cache invalidator.         *)
(*                                                                         *)
(* Objects are records that carry their reference in the field `ref`, a    *)
(* triple <<gen, path, idx>>: gen 0 is the cached graph, gen g >= 1 is     *)
(* what the g-th call allocates.  `a !== b` of the source is a comparison  *)
(* of refs.  An array is [ref, elems]; push keeps the ref (it mutates the  *)
(* array in place), slice and concat allocate a new array.                 *)
(***************************************************************************)
EXTENDS Integers, Sequences, FiniteSets, TLC

\* ---------------------------------------------------------------- bounds
MaxExisting == 3
MaxCore == 3

\* ------------------------------------------------------------ value sets
\* blockHeight: 0 stands for null (not yet confirmed)
Heights == {0, 100}
\* what sameOp compares besides the id (fee, value, senders, recipients)
Vals == {0, 1}
\* the ids of the cached operations and one id the cache never holds
Ids == 1..(MaxExisting + 1)

\* hash of the transaction an operation id belongs to: ids 1 and 2 are two
\* records of one transaction, 3 and 4 of the next, ...
HashOf(id) == (id + 1) \div 2

NoOp == [ref |-> <<0, 0, 0>>, id |-> 0, hash |-> 0, blockHeight |-> 0, val |-> 0]

RawRecord(d, h, v, s) ==
  [id |-> d, hash |-> HashOf(d), blockHeight |-> h, val |-> v, skip |-> s]

\* raw sequences of n records of one account: pairwise distinct ids in any
\* order (new, missing, reordered), any heights, at most one record the
\* adapter skips (position `skp`) and at most one record whose content
\* differs from what the cache holds for its id (position `stale`);
\* position 0 is none
RawSeqs(n, skips) ==
  { [k \in 1..n |-> RawRecord(ids[k], hs[k], IF k = stale THEN 1 ELSE 0, k = skp)] :
      ids \in { f \in [1..n -> Ids] : \A x, y \in 1..n : x # y => f[x] # f[y] },
      hs \in [1..n -> Heights],
      stale \in 0..n,
      skp \in IF skips THEN 0..n ELSE {0} }

Reverse(s) == [k \in 1..Len(s) |-> s[Len(s) + 1 - k]]

\* ------------------------------------------------------------- JS arrays
\* no array (undefined); gen -1 is no object
NoArray == [ref |-> <<-1, 0, 0>>, elems |-> <<>>]
NewArray(gen, path, idx) == [ref |-> <<gen, path, idx>>, elems |-> <<>>]
Push(arr, x) == [arr EXCEPT !.elems = Append(@, x)]
SliceFrom(arr, j) == SubSeq(arr.elems, j + 1, Len(arr.elems))

\* ops.find((o) => o.id === op.id): position (1-based) of the first, 0 if none
FindIndex(elems, id) ==
  IF \E k \in 1..Len(elems) : elems[k].id = id
  THEN CHOOSE k \in 1..Len(elems) :
         elems[k].id = id /\ \A m \in 1..(k - 1) : elems[m].id # id
  ELSE 0

findExistingOp(ops, op) ==
  LET k == FindIndex(ops.elems, op.id) IN IF k = 0 THEN NoOp ELSE ops.elems[k]

\* arr.indexOf(x): 0-based position of the first element that is x itself
IndexOf(arr, x) ==
  (CHOOSE k \in 1..Len(arr.elems) :
     arr.elems[k].ref = x.ref /\ \A m \in 1..(k - 1) : arr.elems[m].ref # x.ref) - 1

\* --------------------------------------------------------------- sameOp
sameOp(a, b) == a.ref = b.ref \/ (a.id = b.id /\ a.val = b.val)

\* ---------------------------------------------------------- stepBuilder
\* the state also counts the diagnostics emitted (warned) and the sameOp
\* evaluations (cmp); array slots of a run: 0 the list the state starts
\* with, 1 the list concat returns, 2 the emptied cache window
\* mutant: the output list starts as the caller's array instead of []
StepBuilderState_aliased(existingOperations, gen, path) ==
  [ finished |-> FALSE,
    operations |-> existingOperations,
    existingOps |-> existingOperations,
    immutableOpCmpDoneOnce |-> FALSE,
    warned |-> 0,
    cmp |-> 0 ]

StepBuilderState(existingOperations, gen, path) ==
  [ finished |-> FALSE,
    operations |-> NewArray(gen, path, 0),
    existingOps |-> existingOperations,
    immutableOpCmpDoneOnce |-> FALSE,
    warned |-> 0,
    cmp |-> 0 ]

\* mutant: the first match ends the walk, whatever the length of rest
stepBuilderMatched_stopsAtFirst(state, existingOp, i, gen, path) ==
  LET j == IndexOf(state.existingOps, existingOp)
      rest == SliceFrom(state.existingOps, j)
  IN [state EXCEPT
        !.operations =
          IF Len(state.operations.elems) = 0 /\ j = 0
          THEN state.existingOps
          ELSE [ref |-> <<gen, path, 1>>, elems |-> state.operations.elems \o rest],
        !.finished = TRUE]

\* mutant: the walk goes on when rest is as long as the records that remain
stepBuilderMatched_walksOn(state, existingOp, i, gen, path) ==
  LET j == IndexOf(state.existingOps, existingOp)
      rest == SliceFrom(state.existingOps, j)
  IN IF Len(rest) > i
     THEN [state EXCEPT !.operations = Push(@, existingOp)]
     ELSE [state EXCEPT
             !.operations =
               IF Len(state.operations.elems) = 0 /\ j = 0
               THEN state.existingOps
               ELSE [ref |-> <<gen, path, 1>>, elems |-> state.operations.elems \o rest],
             !.finished = TRUE]

\* mutant: the slice starts one past the match
stepBuilderMatched_sliceOff(state, existingOp, i, gen, path) ==
  LET j == IndexOf(state.existingOps, existingOp)
      rest == SliceFrom(state.existingOps, j + 1)
  IN IF Len(rest) > i + 1
     THEN [state EXCEPT !.operations = Push(@, existingOp)]
     ELSE [state EXCEPT
             !.operations =
               IF Len(state.operations.elems) = 0 /\ j = 0
               THEN state.existingOps
               ELSE [ref |-> <<gen, path, 1>>, elems |-> state.operations.elems \o rest],
             !.finished = TRUE]

\* mutant: the cached suffix is put in front of what was pushed
stepBuilderMatched_restFirst(state, existingOp, i, gen, path) ==
  LET j == IndexOf(state.existingOps, existingOp)
      rest == SliceFrom(state.existingOps, j)
  IN IF Len(rest) > i + 1
     THEN [state EXCEPT !.operations = Push(@, existingOp)]
     ELSE [state EXCEPT
             !.operations =
               IF Len(state.operations.elems) = 0 /\ j = 0
               THEN state.existingOps
               ELSE [ref |-> <<gen, path, 1>>, elems |-> rest \o state.operations.elems],
             !.finished = TRUE]

stepBuilderMatched(state, existingOp, i, gen, path) ==
  LET j == IndexOf(state.existingOps, existingOp)
      rest == SliceFrom(state.existingOps, j)
  IN IF Len(rest) > i + 1
     THEN [state EXCEPT !.operations = Push(@, existingOp)]
     ELSE [state EXCEPT
             !.operations =
               IF Len(state.operations.elems) = 0 /\ j = 0
               THEN state.existingOps
               ELSE [ref |-> <<gen, path, 1>>, elems |-> state.operations.elems \o rest],
             !.finished = TRUE]

\* mutant: the failsafe warns but keeps the cache window
stepBuilder_noClear(state, newOp, i, gen, path) ==
  LET existingOp == findExistingOp(state.existingOps, newOp)
      found == existingOp # NoOp
  IN IF found /\ ~state.immutableOpCmpDoneOnce
     THEN IF existingOp.blockHeight # newOp.blockHeight
          THEN [state EXCEPT !.operations = Push(@, newOp)]
          ELSE LET s1 == [state EXCEPT !.immutableOpCmpDoneOnce = TRUE,
                                       !.cmp = @ + 1]
               IN IF ~sameOp(existingOp, newOp)
                  THEN [s1 EXCEPT !.warned = @ + 1,
                                  !.operations = Push(@, newOp)]
                  ELSE stepBuilderMatched(s1, existingOp, i, gen, path)
     ELSE IF found
          THEN stepBuilderMatched(state, existingOp, i, gen, path)
          ELSE [state EXCEPT !.operations = Push(@, newOp)]

\* mutant: at a differing blockHeight the cached operation is kept next to
\* the new one
stepBuilder_keepsBoth(state, newOp, i, gen, path) ==
  LET existingOp == findExistingOp(state.existingOps, newOp)
      found == existingOp # NoOp
  IN IF found /\ ~state.immutableOpCmpDoneOnce
     THEN IF existingOp.blockHeight # newOp.blockHeight
          THEN [state EXCEPT !.operations = Push(Push(@, newOp), existingOp)]
          ELSE LET s1 == [state EXCEPT !.immutableOpCmpDoneOnce = TRUE,
                                       !.cmp = @ + 1]
               IN IF ~sameOp(existingOp, newOp)
                  THEN [s1 EXCEPT !.warned = @ + 1,
                                  !.existingOps = NewArray(gen, path, 2),
                                  !.operations = Push(@, newOp)]
                  ELSE stepBuilderMatched(s1, existingOp, i, gen, path)
     ELSE IF found
          THEN stepBuilderMatched(state, existingOp, i, gen, path)
          ELSE [state EXCEPT !.operations = Push(@, newOp)]

\* mutant: the cached operation that failed sameOp is kept
stepBuilder_staleKept(state, newOp, i, gen, path) ==
  LET existingOp == findExistingOp(state.existingOps, newOp)
      found == existingOp # NoOp
  IN IF found /\ ~state.immutableOpCmpDoneOnce
     THEN IF existingOp.blockHeight # newOp.blockHeight
          THEN [state EXCEPT !.operations = Push(@, newOp)]
          ELSE LET s1 == [state EXCEPT !.immutableOpCmpDoneOnce = TRUE,
                                       !.cmp = @ + 1]
               IN IF ~sameOp(existingOp, newOp)
                  THEN [s1 EXCEPT !.warned = @ + 1,
                                  !.existingOps = NewArray(gen, path, 2),
                                  !.operations = Push(@, existingOp)]
                  ELSE stepBuilderMatched(s1, existingOp, i, gen, path)
     ELSE IF found
          THEN stepBuilderMatched(state, existingOp, i, gen, path)
          ELSE [state EXCEPT !.operations = Push(@, newOp)]

\* mutant: a match whose blockHeight differs also uses up the one comparison
stepBuilder_flagOnHeightDiff(state, newOp, i, gen, path) ==
  LET existingOp == findExistingOp(state.existingOps, newOp)
      found == existingOp # NoOp
  IN IF found /\ ~state.immutableOpCmpDoneOnce
     THEN IF existingOp.blockHeight # newOp.blockHeight
          THEN [state EXCEPT !.operations = Push(@, newOp),
                             !.immutableOpCmpDoneOnce = TRUE]
          ELSE LET s1 == [state EXCEPT !.immutableOpCmpDoneOnce = TRUE,
                                       !.cmp = @ + 1]
               IN IF ~sameOp(existingOp, newOp)
                  THEN [s1 EXCEPT !.warned = @ + 1,
                                  !.existingOps = NewArray(gen, path, 2),
                                  !.operations = Push(@, newOp)]
                  ELSE stepBuilderMatched(s1, existingOp, i, gen, path)
     ELSE IF found
          THEN stepBuilderMatched(state, existingOp, i, gen, path)
          ELSE [state EXCEPT !.operations = Push(@, newOp)]

stepBuilder(state, newOp, i, gen, path) ==
  LET existingOp == findExistingOp(state.existingOps, newOp)
      found == existingOp # NoOp
  IN IF found /\ ~state.immutableOpCmpDoneOnce
     THEN IF existingOp.blockHeight # newOp.blockHeight
          THEN [state EXCEPT !.operations = Push(@, newOp)]
          ELSE LET s1 == [state EXCEPT !.immutableOpCmpDoneOnce = TRUE,
                                       !.cmp = @ + 1]
               IN IF ~sameOp(existingOp, newOp)
                  THEN [s1 EXCEPT !.warned = @ + 1,
                                  !.existingOps = NewArray(gen, path, 2),
                                  !.operations = Push(@, newOp)]
                  ELSE stepBuilderMatched(s1, existingOp, i, gen, path)
     ELSE IF found
          THEN stepBuilderMatched(state, existingOp, i, gen, path)
          ELSE [state EXCEPT !.operations = Push(@, newOp)]

\* ------------------------------------------------------------- adapters
\* an Operation built from the raw record at index i of the walk
OpOfRaw(raw, i, gen, path) ==
  [ref |-> <<gen, path, i>>, id |-> raw.id, hash |-> raw.hash,
   blockHeight |-> raw.blockHeight, val |-> raw.val]

\* the caller's adapter: null for a record it skips
buildOp(raw, i, gen, path) ==
  IF raw.skip THEN NoOp ELSE OpOfRaw(raw, i, gen, path)

\* fromOperationRaw always returns an Operation
fromOperationRaw(raw, i, gen, path) == OpOfRaw(raw, i, gen, path)

\* the adapter a caller hands to the builder
Adapter(name, raw, i, gen, path) ==
  IF name = "fromOperationRaw" THEN fromOperationRaw(raw, i, gen, path)
  ELSE buildOp(raw, i, gen, path)

\* mergeSameHashOps of the caller: one Operation for a run of operations of
\* one hash, a new object that adds up the amounts; the operation of a
\* one-element run is returned as it is
mergeSameHashOps(group, gen, path) ==
  LET RECURSIVE Sum(_)
      Sum(k) == IF k = 0 THEN 0 ELSE group[k].val + Sum(k - 1)
  IN IF Len(group) = 1 THEN group[1]
     ELSE [group[1] EXCEPT !.ref = <<gen, path + 1, group[1].ref[3]>>,
                           !.val = Sum(Len(group))]

\* -------------------------------------------- minimalOperationsBuilderSync
RECURSIVE SyncWalk(_, _, _, _, _, _)
SyncWalk(state, coreOps, i, adapter, gen, path) ==
  IF i < 0 THEN state
  ELSE LET newOp == Adapter(adapter, coreOps[i + 1], i, gen, path)
       IN IF newOp = NoOp
          THEN SyncWalk(state, coreOps, i - 1, adapter, gen, path)
          ELSE LET s == stepBuilder(state, newOp, i, gen, path)
               IN IF s.finished THEN s
                  ELSE SyncWalk(s, coreOps, i - 1, adapter, gen, path)

minimalOperationsBuilderSync(existingOps, coreOps, adapter, gen, path) ==
  IF Len(existingOps.elems) = 0 /\ Len(coreOps) = 0
  THEN existingOps
  ELSE SyncWalk(StepBuilderState(existingOps, gen, path),
                coreOps, Len(coreOps) - 1, adapter, gen, path).operations

\* updated is newest-first; the builder walks its argument from the last
\* index down, so it is handed the reversed copy
patchOperations(operations, updatedOps, gen, path) ==
  minimalOperationsBuilderSync(operations, Reverse(updatedOps),
                               "fromOperationRaw", gen, path)

\* ============================================================ the patchers
\* ------------------------------------------------- numbers, dates, absence
\* an absent (undefined) string field
Undefined == "undefined"
IsSet(x) == x # Undefined

\* a live BigNumber is written as its toString() prints it; toFixed()
\* never uses the exponent, toString() does from 1e+21 on
BigNumberOf(str) == IF str = "1000000000000000000000" THEN "1e+21" ELSE str
BNtoString(b) == b
BNtoFixed(b) == IF b = "1e+21" THEN "1000000000000000000000" ELSE b

\* a live Date is written as its toISOString() prints it; new Date() also
\* reads the date-only form
DateOf(str) == IF str = "2022-02-02" THEN "2022-02-02T00:00:00.000Z" ELSE str
toISOString(d) == d
\* Date.now() of the call
Now == "2030-01-01T00:00:00.000Z"

\* ---------------------------------------------------- balance history cache
EmptyBucket == [latestDate |-> 0, balances |-> <<>>]
emptyHistoryCache == [ref |-> <<-2, 0, 0>>, HOUR |-> EmptyBucket, DAY |-> EmptyBucket]
\* no balanceHistoryCache in the raw snapshot
NoCache == [ref |-> <<-1, 0, 0>>, HOUR |-> EmptyBucket, DAY |-> EmptyBucket]

\* mutant: every resolution and every data point is compared
shouldRefreshBalanceHistoryCache_deep(balanceHistoryCache, account) ==
  \/ account.balanceHistoryCache.HOUR # balanceHistoryCache.HOUR
  \/ account.balanceHistoryCache.DAY # balanceHistoryCache.DAY

\* mutant: the last data point is not looked at
shouldRefreshBalanceHistoryCache_noLast(balanceHistoryCache, account) ==
  LET oldH == account.balanceHistoryCache.HOUR
      newH == balanceHistoryCache.HOUR
  IN IF oldH.latestDate # newH.latestDate THEN TRUE
     ELSE IF Len(oldH.balances) # Len(newH.balances) THEN TRUE
     ELSE FALSE

shouldRefreshBalanceHistoryCache(balanceHistoryCache, account) ==
  LET oldH == account.balanceHistoryCache.HOUR
      newH == balanceHistoryCache.HOUR
      length == Len(newH.balances)
  IN IF oldH.latestDate # newH.latestDate THEN TRUE
     ELSE IF Len(oldH.balances) # Len(newH.balances) THEN TRUE
     ELSE IF length = 0 THEN FALSE
     ELSE IF oldH.balances[length] # newH.balances[length] THEN TRUE
     ELSE FALSE

\* generateHistoryFromOperations: the history of a freshly built entity
generateHistoryFromOperations(cache, gen, path) ==
  [cache EXCEPT !.ref = <<gen, path, 0>>]

\* ------------------------------------------------ conversions from raw
\* raw.operations.map(convertOperation): a new array of new operations
OperationsFromRaw(rawOps, gen, path) ==
  [ref |-> <<gen, path, 0>>,
   elems |-> [k \in 1..Len(rawOps) |-> fromOperationRaw(rawOps[k], k, gen, path)]]

OrElse(x, y) == IF IsSet(x) THEN x ELSE y
\* operationsCount || (operations && operations.length) || 0
CountOrLength(count, rawOps) == IF count # 0 THEN count ELSE Len(rawOps)

\* no cached sub-account (existingSubAccounts.find found none)
NoSub ==
  [ref |-> <<-1, 0, 0>>, type |-> Undefined, id |-> Undefined, parentId |-> Undefined,
   operations |-> NoArray, pendingOperations |-> NoArray, operationsCount |-> 0,
   creationDate |-> Undefined, balance |-> Undefined, spendableBalance |-> Undefined,
   compoundBalance |-> Undefined, approvals |-> Undefined,
   balanceHistoryCache |-> NoCache]

fromTokenAccountRaw(raw, gen, path) ==
  [ref |-> <<gen, path, 0>>, type |-> "TokenAccount", id |-> raw.id,
   parentId |-> raw.parentId,
   balance |-> BigNumberOf(raw.balance),
   spendableBalance |-> IF IsSet(raw.spendableBalance)
                        THEN BigNumberOf(raw.spendableBalance)
                        ELSE BigNumberOf(raw.balance),
   creationDate |-> DateOf(OrElse(raw.creationDate, Now)),
   operationsCount |-> CountOrLength(raw.operationsCount, raw.operations),
   operations |-> OperationsFromRaw(raw.operations, gen, path + 1),
   pendingOperations |-> OperationsFromRaw(raw.pendingOperations, gen, path + 2),
   compoundBalance |-> Undefined,
   approvals |-> raw.approvals,
   balanceHistoryCache |->
     generateHistoryFromOperations(
       IF raw.balanceHistoryCache # NoCache THEN raw.balanceHistoryCache
       ELSE emptyHistoryCache, gen, path + 4)]

fromChildAccountRaw(raw, gen, path) ==
  [ref |-> <<gen, path, 0>>, type |-> "ChildAccount", id |-> raw.id,
   parentId |-> raw.parentId,
   balance |-> BigNumberOf(raw.balance),
   spendableBalance |-> Undefined,
   creationDate |-> DateOf(OrElse(raw.creationDate, Now)),
   operationsCount |-> CountOrLength(raw.operationsCount, raw.operations),
   operations |-> OperationsFromRaw(raw.operations, gen, path + 1),
   pendingOperations |-> OperationsFromRaw(raw.pendingOperations, gen, path + 2),
   compoundBalance |-> Undefined,
   approvals |-> Undefined,
   balanceHistoryCache |->
     generateHistoryFromOperations(
       IF raw.balanceHistoryCache # NoCache THEN raw.balanceHistoryCache
       ELSE emptyHistoryCache, gen, path + 4)]

\* what a call that throws "invalid raw.type" leaves its caller with
\* (gen -3: an error, no object)
ThrownSub == [NoSub EXCEPT !.ref = <<-3, 0, 0>>]
ThrownAccount == [ref |-> <<-3, 0, 0>>]

\* true iff one of the sub-accounts a map produced is a thrown error
Throws(subAccounts) ==
  \E k \in 1..Len(subAccounts.elems) : subAccounts.elems[k].ref = ThrownSub.ref

fromSubAccountRaw(raw, gen, path) ==
  IF raw.type = "ChildAccountRaw" THEN fromChildAccountRaw(raw, gen, path)
  ELSE IF raw.type = "TokenAccountRaw" THEN fromTokenAccountRaw(raw, gen, path)
  ELSE ThrownSub

\* ------------------------------------------------------- patchSubAccount
\* lines 397-470: next and changed of a cached sub-account of the same
\* identity, given the two patched operation lists
SubAccountNext(account, updatedRaw, operations, pendingOperations, gen, path) ==
  LET cCount == account.operationsCount # updatedRaw.operationsCount
                /\ updatedRaw.operationsCount # 0
      cCreation == IsSet(updatedRaw.creationDate)
                   /\ updatedRaw.creationDate # toISOString(account.creationDate)
      cOps == account.operations.ref # operations.ref
      cPending == account.pendingOperations.ref # pendingOperations.ref
      cBalance == updatedRaw.balance # BNtoString(account.balance)
      token == account.type = "TokenAccount" /\ updatedRaw.type = "TokenAccountRaw"
      cSpendable == token
                    /\ updatedRaw.spendableBalance # BNtoString(account.spendableBalance)
      cCompound == token /\ updatedRaw.compoundBalance # account.compoundBalance
      cApprovals == token /\ IsSet(updatedRaw.approvals)
                    /\ updatedRaw.approvals # account.approvals
      cCache == updatedRaw.balanceHistoryCache # NoCache
                /\ shouldRefreshBalanceHistoryCache(updatedRaw.balanceHistoryCache, account)
      changed == cCount \/ cCreation \/ cOps \/ cPending \/ cBalance \/ cSpendable
                 \/ cCompound \/ cApprovals \/ cCache
  IN IF ~changed THEN account
     ELSE
        [account EXCEPT
           !.ref = <<gen, path, 0>>,
           !.operationsCount = IF cCount THEN updatedRaw.operationsCount ELSE @,
           !.creationDate = IF cCreation THEN DateOf(updatedRaw.creationDate) ELSE @,
           !.operations = IF cOps THEN operations ELSE @,
           !.pendingOperations = IF cPending THEN pendingOperations ELSE @,
           !.balance = IF cBalance THEN BigNumberOf(updatedRaw.balance) ELSE @,
           !.spendableBalance =
              IF cSpendable
              THEN BigNumberOf(OrElse(updatedRaw.spendableBalance, updatedRaw.balance))
              ELSE @,
           !.compoundBalance =
              IF cCompound
              THEN (IF IsSet(updatedRaw.compoundBalance)
                    THEN BigNumberOf(updatedRaw.compoundBalance) ELSE Undefined)
              ELSE @,
           !.approvals = IF cApprovals THEN updatedRaw.approvals ELSE @,
           !.balanceHistoryCache = IF cCache THEN updatedRaw.balanceHistoryCache ELSE @]

\* lines 384-470: a cached sub-account of the same identity
PatchSubAccountFields(account, updatedRaw, gen, path) ==
  SubAccountNext(account, updatedRaw,
                 patchOperations(account.operations, updatedRaw.operations,
                                 gen, path + 1),
                 patchOperations(account.pendingOperations,
                                 updatedRaw.pendingOperations, gen, path + 2),
                 gen, path)

\* mutant: the parent id is not compared
patchSubAccount_noParent(account, updatedRaw, gen, path) ==
  IF account = NoSub \/ account.id # updatedRaw.id
  THEN fromSubAccountRaw(updatedRaw, gen, path)
  ELSE PatchSubAccountFields(account, updatedRaw, gen, path)

patchSubAccount(account, updatedRaw, gen, path) ==
  IF account = NoSub \/ account.id # updatedRaw.id
     \/ account.parentId # updatedRaw.parentId
  THEN fromSubAccountRaw(updatedRaw, gen, path)
  ELSE PatchSubAccountFields(account, updatedRaw, gen, path)

\* ------------------------------------------------- family resources, nfts
\* no resources on the account / in the raw snapshot
NoResources == [ref |-> <<-1, 0, 0>>, v |-> <<>>]

\* from<Family>ResourcesRaw: the live resources of a raw payload
fromResourcesRaw(raw, gen) == [ref |-> <<gen, 6, 0>>, v |-> raw.v]
\* to<Family>ResourcesRaw
toResourcesRaw(res) == [ref |-> <<-2, 6, 0>>, v |-> res.v]

areSameResources(a, b) == a.v = b.v

shouldRefreshBitcoinResources(updatedRaw, account) ==
  IF updatedRaw.resources = NoResources THEN FALSE
  ELSE IF account.resources = NoResources THEN TRUE
  ELSE IF updatedRaw.blockHeight # account.blockHeight THEN TRUE
  ELSE IF Len(updatedRaw.operations) # Len(account.operations.elems) THEN TRUE
  ELSE IF Len(updatedRaw.resources.v) # Len(account.resources.v) THEN TRUE
  ELSE updatedRaw.resources.v # account.resources.v

\* polkadot, zilliqa, crypto_org: the same test in three cases of the switch
shouldRefreshResources(updatedRaw, account) ==
  /\ updatedRaw.resources # NoResources
  /\ \/ account.resources = NoResources
     \/ ~areSameResources(toResourcesRaw(account.resources), updatedRaw.resources)

\* families of the switch, a family whose bridge has applyReconciliation
\* and one whose bridge has none
Families == {"bitcoin", "polkadot", "zilliqa", "crypto_org", "ethereum", "ripple"}
SwitchFamilies == {"polkadot", "zilliqa", "crypto_org"}
HasApplyReconciliation(family) == family = "ethereum"

\* bridge.applyReconciliation(account, updatedRaw, next): the verdict of the
\* family capability; when TRUE it has written the resources into next
applyReconciliation(account, updatedRaw) == shouldRefreshResources(updatedRaw, account)

fromNFTRaw(n) == [id |-> n.id, amount |-> BigNumberOf(n.amount)]
NFTsFromRaw(rawNfts, gen) ==
  IF rawNfts = NoArray THEN NoArray
  ELSE [ref |-> <<gen, 5, 0>>,
        elems |-> [k \in 1..Len(rawNfts.elems) |-> fromNFTRaw(rawNfts.elems[k])]]
\* lodash isEqual of two optional arrays
isEqualArrays(a, b) ==
  IF a = NoArray \/ b = NoArray THEN a = NoArray /\ b = NoArray
  ELSE a.elems = b.elems

\* ---------------------------------------------------------- fromAccountRaw
fromAccountRaw(rawAccount, gen) ==
  IF \E k \in 1..Len(rawAccount.subAccounts.elems) :
       rawAccount.subAccounts.elems[k].type \notin {"TokenAccountRaw", "ChildAccountRaw"}
  THEN ThrownAccount
  ELSE
  [ref |-> <<gen, 0, 0>>,
   id |-> rawAccount.id,
   name |-> rawAccount.name,
   family |-> rawAccount.family,
   freshAddress |-> rawAccount.freshAddress,
   freshAddressPath |-> rawAccount.freshAddressPath,
   blockHeight |-> rawAccount.blockHeight,
   creationDate |-> DateOf(OrElse(rawAccount.creationDate, Now)),
   balance |-> BigNumberOf(rawAccount.balance),
   spendableBalance |-> BigNumberOf(OrElse(rawAccount.spendableBalance,
                                           rawAccount.balance)),
   operations |-> OperationsFromRaw(rawAccount.operations, gen, 1),
   operationsCount |-> CountOrLength(rawAccount.operationsCount, rawAccount.operations),
   pendingOperations |-> OperationsFromRaw(rawAccount.pendingOperations, gen, 2),
   lastSyncDate |-> DateOf(rawAccount.lastSyncDate),
   syncHash |-> rawAccount.syncHash,
   balanceHistoryCache |->
     generateHistoryFromOperations(
       IF rawAccount.balanceHistoryCache # NoCache THEN rawAccount.balanceHistoryCache
       ELSE emptyHistoryCache, gen, 4),
   nfts |-> NFTsFromRaw(rawAccount.nfts, gen),
   subAccounts |->
     IF rawAccount.subAccounts = NoArray THEN NoArray
     ELSE [ref |-> <<gen, 3, 0>>,
           elems |-> [k \in 1..Len(rawAccount.subAccounts.elems) |->
                       fromSubAccountRaw(rawAccount.subAccounts.elems[k], gen, 10 * k)]],
   resources |->
     IF rawAccount.resources = NoResources THEN NoResources
     ELSE fromResourcesRaw(rawAccount.resources, gen)]

\* ------------------------------------------------------------ patchAccount
\* account.subAccounts || [] (line 168)
ExistingSubAccounts(account, gen) ==
  IF account.subAccounts # NoArray THEN account.subAccounts
  ELSE [ref |-> <<gen, 3, 1>>, elems |-> <<>>]

\* existingSubAccounts.find((t) => t.id === ta.id) (line 172)
ExistingSub(existingSubAccounts, ta) ==
  LET x == FindIndex(existingSubAccounts.elems, ta.id)
  IN IF x = 0 THEN NoSub ELSE existingSubAccounts.elems[x]

\* updatedRaw.subAccounts.map(...) (lines 171-180)
PatchedSubs(existingSubAccounts, raws, gen) ==
  [k \in 1..Len(raws) |->
     patchSubAccount(ExistingSub(existingSubAccounts, raws[k]), raws[k], gen, 10 * k)]

\* lines 169-184: the mapped array, or the existing one when nothing changed
SubAccountsNext(existingSubAccounts, raws, patchedSubs, gen) ==
  IF \/ Len(raws) # Len(existingSubAccounts.elems)
     \/ \E k \in 1..Len(raws) :
          patchedSubs[k].ref # ExistingSub(existingSubAccounts, raws[k]).ref
  THEN [ref |-> <<gen, 3, 0>>, elems |-> patchedSubs]
  ELSE existingSubAccounts

\* the sub-accounts of the patched account (lines 165-185)
PatchedSubAccounts(account, updatedRaw, gen) ==
  IF updatedRaw.subAccounts = NoArray THEN NoArray
  ELSE SubAccountsNext(ExistingSubAccounts(account, gen),
                       updatedRaw.subAccounts.elems,
                       PatchedSubs(ExistingSubAccounts(account, gen),
                                   updatedRaw.subAccounts.elems, gen),
                       gen)

\* lines 199-277: next and changed before the switch on the family, given
\* the patched sub-accounts and operation lists
AccountNext(account, updatedRaw, subAccounts, operations, pendingOperations, gen) ==
  LET cSubs == subAccounts # NoArray /\ account.subAccounts.ref # subAccounts.ref
      cOps == account.operations.ref # operations.ref
      cCount == account.operationsCount # updatedRaw.operationsCount
                /\ updatedRaw.operationsCount # 0
      cPending == account.pendingOperations.ref # pendingOperations.ref
      cBalance == updatedRaw.balance # BNtoString(account.balance)
      cSpendable == updatedRaw.spendableBalance # BNtoString(account.spendableBalance)
      cSync == updatedRaw.lastSyncDate # toISOString(account.lastSyncDate)
      cCreation == IsSet(updatedRaw.creationDate)
                   /\ updatedRaw.creationDate # toISOString(account.creationDate)
      cAddress == account.freshAddress # updatedRaw.freshAddress
      cPath == account.freshAddressPath # updatedRaw.freshAddressPath
      cHeight == account.blockHeight # updatedRaw.blockHeight
      cHash == account.syncHash # updatedRaw.syncHash
      cCache == updatedRaw.balanceHistoryCache # NoCache
                /\ shouldRefreshBalanceHistoryCache(updatedRaw.balanceHistoryCache, account)
  IN [changed |-> cSubs \/ cOps \/ cCount \/ cPending \/ cBalance \/ cSpendable
                  \/ cSync \/ cCreation \/ cAddress \/ cPath \/ cHeight \/ cHash
                  \/ cCache,
      next |->
        [account EXCEPT
           !.ref = <<gen, 0, 0>>,
           !.subAccounts = IF cSubs THEN subAccounts ELSE @,
           !.operations = IF cOps THEN operations ELSE @,
           !.operationsCount = IF cCount THEN updatedRaw.operationsCount ELSE @,
           !.pendingOperations = IF cPending THEN pendingOperations ELSE @,
           !.balance = IF cBalance THEN BigNumberOf(updatedRaw.balance) ELSE @,
           !.spendableBalance =
              IF cSpendable
              THEN BigNumberOf(OrElse(updatedRaw.spendableBalance, updatedRaw.balance))
              ELSE @,
           !.lastSyncDate = IF cSync THEN DateOf(updatedRaw.lastSyncDate) ELSE @,
           !.creationDate = IF cCreation THEN DateOf(updatedRaw.creationDate) ELSE @,
           !.freshAddress = IF cAddress THEN updatedRaw.freshAddress ELSE @,
           !.freshAddressPath = IF cPath THEN updatedRaw.freshAddressPath ELSE @,
           !.blockHeight = IF cHeight THEN updatedRaw.blockHeight ELSE @,
           !.syncHash = IF cHash THEN updatedRaw.syncHash ELSE @,
           !.balanceHistoryCache =
              IF cCache THEN updatedRaw.balanceHistoryCache ELSE @]]

\* lines 187-277: next and changed before the switch on the family, given
\* the patched sub-accounts
PatchAccountFields(account, updatedRaw, subAccounts, gen) ==
  AccountNext(account, updatedRaw, subAccounts,
              patchOperations(account.operations, updatedRaw.operations, gen, 1),
              patchOperations(account.pendingOperations,
                              updatedRaw.pendingOperations, gen, 2),
              gen)

\* lines 286-356: the switch on account.currency.family
PatchAccountFamily(account, updatedRaw, fields, gen) ==
  LET fresh == fromResourcesRaw(updatedRaw.resources, gen)
  IN IF account.family = "bitcoin"
     THEN [changed |-> fields.changed,
           next |-> IF shouldRefreshBitcoinResources(updatedRaw, account)
                    THEN [fields.next EXCEPT !.resources = fresh]
                    ELSE fields.next]
     ELSE IF account.family \in SwitchFamilies
     THEN IF shouldRefreshResources(updatedRaw, account)
          THEN [changed |-> TRUE, next |-> [fields.next EXCEPT !.resources = fresh]]
          ELSE fields
     ELSE IF HasApplyReconciliation(account.family) /\ ~fields.changed
               /\ applyReconciliation(account, updatedRaw)
          THEN [changed |-> TRUE, next |-> [fields.next EXCEPT !.resources = fresh]]
          ELSE fields

\* lines 358-365
PatchAccountNfts(account, updatedRaw, sofar, gen) ==
  LET nfts == NFTsFromRaw(updatedRaw.nfts, gen)
  IN IF updatedRaw.nfts = NoArray /\ account.nfts # NoArray
     THEN [changed |-> TRUE, next |-> [sofar.next EXCEPT !.nfts = NoArray]]
     ELSE IF ~isEqualArrays(account.nfts, nfts)
     THEN [changed |-> TRUE, next |-> [sofar.next EXCEPT !.nfts = nfts]]
     ELSE sofar

\* lines 187-365: next and changed at the end of patchAccount
PatchAccountFinal(account, updatedRaw, subAccounts, gen) ==
  PatchAccountNfts(account, updatedRaw,
                   PatchAccountFamily(account, updatedRaw,
                                      PatchAccountFields(account, updatedRaw,
                                                         subAccounts, gen),
                                      gen),
                   gen)

\* lines 367-369
PatchAccountReturn(account, final) ==
  IF ~final.changed THEN account ELSE final.next

\* lines 165-369 for the mapped sub-accounts: an error thrown inside the map
\* of line 171 ends the call
PatchAccountSame(account, updatedRaw, subAccounts, gen) ==
  IF Throws(subAccounts) THEN ThrownAccount
  ELSE PatchAccountReturn(account,
                          PatchAccountFinal(account, updatedRaw, subAccounts, gen))

\* mutant: the copy is returned also when nothing was found different
patchAccount_alwaysNext(account, updatedRaw, gen) ==
  IF account.id # updatedRaw.id THEN fromAccountRaw(updatedRaw, gen)
  ELSE PatchAccountFinal(account, updatedRaw,
                         PatchedSubAccounts(account, updatedRaw, gen), gen).next

patchAccount(account, updatedRaw, gen) ==
  IF account.id # updatedRaw.id THEN fromAccountRaw(updatedRaw, gen)
  ELSE PatchAccountSame(account, updatedRaw,
                        PatchedSubAccounts(account, updatedRaw, gen), gen)

\* ------------------------------------------------------ serialisation
toOperationRaw(op) == RawRecord(op.id, op.blockHeight, op.val, FALSE)
OperationsToRaw(ops) == [k \in 1..Len(ops.elems) |-> toOperationRaw(ops.elems[k])]

\* ---------------------------------------------- the extra of an operation
\* no extra (undefined), the {} of `e || {}`, and a family payload in its
\* live or its raw form
NoExtra == [form |-> "undefined", v |-> 0]
EmptyExtra == [form |-> "empty", v |-> 0]
Extras == { [form |-> f, v |-> x] : f \in {"live", "raw"}, x \in Vals }

\* inferFamilyFromAccountId: the family of the currency an account id
\* names, Undefined for an id it cannot read
AccountIds == {"js:2:cosmos:a:", "js:2:algorand:b:", "js:2:tezos:c:",
               "js:2:bitcoin:d:", "js:2:ripple:e:", "mock"}
inferFamilyFromAccountId(accountId) ==
  IF accountId = "js:2:cosmos:a:" THEN "cosmos"
  ELSE IF accountId = "js:2:algorand:b:" THEN "algorand"
  ELSE IF accountId = "js:2:tezos:c:" THEN "tezos"
  ELSE IF accountId = "js:2:bitcoin:d:" THEN "bitcoin"
  ELSE IF accountId = "js:2:ripple:e:" THEN "ripple"
  ELSE Undefined

\* accountByFamily: the families that register a capability, and whether
\* it has an encoder and a decoder of extra; ripple registers nothing
accountByFamily ==
  [cosmos |-> [toOperationExtraRaw |-> TRUE, fromOperationExtraRaw |-> TRUE],
   algorand |-> [toOperationExtraRaw |-> TRUE, fromOperationExtraRaw |-> FALSE],
   tezos |-> [toOperationExtraRaw |-> FALSE, fromOperationExtraRaw |-> TRUE],
   bitcoin |-> [toOperationExtraRaw |-> FALSE, fromOperationExtraRaw |-> FALSE]]

\* abf.toOperationExtraRaw / abf.fromOperationExtraRaw of a family
toOperationExtraRaw(e) == [e EXCEPT !.form = "raw"]
fromOperationExtraRaw(e) == [e EXCEPT !.form = "live"]

\* part_000 lines 58-70: the extra toOperationRaw returns
ExtraToRaw(accountId, extra) ==
  LET family == inferFamilyFromAccountId(accountId)
  IN IF extra # NoExtra /\ family # Undefined
        /\ family \in DOMAIN accountByFamily
        /\ accountByFamily[family].toOperationExtraRaw
     THEN toOperationExtraRaw(extra)
     ELSE extra

\* mutant: the decoder is applied to every extra that is present
ExtraFromRaw_always(accountId, extra) ==
  LET e == IF extra # NoExtra THEN fromOperationExtraRaw(extra) ELSE extra
  IN IF e = NoExtra THEN EmptyExtra ELSE e

\* part_000 lines 90-106: the extra fromOperationRaw returns (e || {})
ExtraFromRaw(accountId, extra) ==
  LET family == inferFamilyFromAccountId(accountId)
      e == IF extra # NoExtra /\ family # Undefined
              /\ family \in DOMAIN accountByFamily
              /\ accountByFamily[family].fromOperationExtraRaw
           THEN fromOperationExtraRaw(extra)
           ELSE extra
  IN IF e = NoExtra THEN EmptyExtra ELSE e

\* toOperationRaw and fromOperationRaw on an operation with its accountId
\* and extra: the common conversion, then the extra
toOperationRawWithExtra(operation) ==
  [op |-> toOperationRaw(operation.op), accountId |-> operation.accountId,
   extra |-> ExtraToRaw(operation.accountId, operation.extra)]
fromOperationRawWithExtra(operation, accountId, gen) ==
  [op |-> fromOperationRaw(operation.op, 0, gen, 0), accountId |-> accountId,
   extra |-> ExtraFromRaw(accountId, operation.extra)]

toTokenAccountRaw(ta) ==
  [type |-> "TokenAccountRaw", id |-> ta.id, parentId |-> ta.parentId,
   balance |-> BNtoString(ta.balance),
   spendableBalance |-> BNtoString(ta.spendableBalance),
   compoundBalance |-> Undefined,
   balanceHistoryCache |-> ta.balanceHistoryCache,
   creationDate |-> toISOString(ta.creationDate),
   operationsCount |-> ta.operationsCount,
   operations |-> OperationsToRaw(ta.operations),
   pendingOperations |-> OperationsToRaw(ta.pendingOperations),
   approvals |-> ta.approvals]

toChildAccountRaw(ca) ==
  [type |-> "ChildAccountRaw", id |-> ca.id, parentId |-> ca.parentId,
   balance |-> BNtoString(ca.balance),
   spendableBalance |-> Undefined,
   compoundBalance |-> Undefined,
   balanceHistoryCache |-> ca.balanceHistoryCache,
   creationDate |-> toISOString(ca.creationDate),
   operationsCount |-> ca.operationsCount,
   operations |-> OperationsToRaw(ca.operations),
   pendingOperations |-> OperationsToRaw(ca.pendingOperations),
   approvals |-> Undefined]

toSubAccountRaw(subAccount) ==
  IF subAccount.type = "ChildAccount" THEN toChildAccountRaw(subAccount)
  ELSE toTokenAccountRaw(subAccount)

toNFTRaw(n) == [id |-> n.id, amount |-> BNtoFixed(n.amount)]

toAccountRaw(account) ==
  [id |-> account.id,
   name |-> account.name,
   family |-> account.family,
   freshAddress |-> account.freshAddress,
   freshAddressPath |-> account.freshAddressPath,
   blockHeight |-> account.blockHeight,
   syncHash |-> account.syncHash,
   creationDate |-> toISOString(account.creationDate),
   operationsCount |-> account.operationsCount,
   operations |-> OperationsToRaw(account.operations),
   pendingOperations |-> OperationsToRaw(account.pendingOperations),
   lastSyncDate |-> toISOString(account.lastSyncDate),
   balance |-> BNtoFixed(account.balance),
   spendableBalance |-> BNtoFixed(account.spendableBalance),
   nfts |-> IF account.nfts = NoArray THEN NoArray
            ELSE [ref |-> <<-2, 5, 0>>,
                  elems |-> [k \in 1..Len(account.nfts.elems) |->
                              toNFTRaw(account.nfts.elems[k])]],
   balanceHistoryCache |-> account.balanceHistoryCache,
   subAccounts |-> IF account.subAccounts = NoArray THEN NoArray
                   ELSE [ref |-> <<-2, 3, 0>>,
                         elems |-> [k \in 1..Len(account.subAccounts.elems) |->
                                     toSubAccountRaw(account.subAccounts.elems[k])]],
   resources |-> IF account.resources = NoResources THEN NoResources
                 ELSE toResourcesRaw(account.resources)]

\* a snapshot that went through JSON: its objects are not the live ones
CopyCache(cache, path) ==
  IF cache = NoCache THEN NoCache ELSE [cache EXCEPT !.ref = <<-2, path, 0>>]
Snapshot(raw) ==
  [raw EXCEPT
     !.balanceHistoryCache = CopyCache(raw.balanceHistoryCache, 4),
     !.subAccounts =
        IF raw.subAccounts = NoArray THEN NoArray
        ELSE [ref |-> raw.subAccounts.ref,
              elems |-> [k \in 1..Len(raw.subAccounts.elems) |->
                          [raw.subAccounts.elems[k] EXCEPT
                             !.balanceHistoryCache =
                                CopyCache(raw.subAccounts.elems[k].balanceHistoryCache,
                                          10 * k + 4)]]]]

\* ----------------------------------------------------- the cached accounts
\* a cached list of n operations, the newest one still pending
CachedOps(path, n) ==
  [ref |-> <<0, path, 0>>,
   elems |-> [k \in 1..n |->
               [ref |-> <<0, path, k>>, id |-> n + 1 - k, hash |-> HashOf(n + 1 - k),
                blockHeight |-> IF k = 1 THEN 0 ELSE 100, val |-> 0]]]

CachedHistory(path, balances) ==
  [ref |-> <<0, path, 0>>,
   HOUR |-> [latestDate |-> 10, balances |-> balances],
   DAY |-> [latestDate |-> 10, balances |-> <<1>>]]

CachedToken ==
  [ref |-> <<0, 10, 0>>, type |-> "TokenAccount", id |-> "t1", parentId |-> "acc1",
   operations |-> CachedOps(11, 1), pendingOperations |-> CachedOps(12, 0),
   operationsCount |-> 1, creationDate |-> "2020-01-01T00:00:00.000Z",
   balance |-> "5", spendableBalance |-> "5", compoundBalance |-> Undefined,
   approvals |-> "ap1", balanceHistoryCache |-> CachedHistory(14, <<>>)]

CachedChild ==
  [ref |-> <<0, 20, 0>>, type |-> "ChildAccount", id |-> "c1", parentId |-> "acc1",
   operations |-> CachedOps(21, 1), pendingOperations |-> CachedOps(22, 0),
   operationsCount |-> 1, creationDate |-> "2020-01-01T00:00:00.000Z",
   balance |-> "5", spendableBalance |-> Undefined, compoundBalance |-> Undefined,
   approvals |-> Undefined, balanceHistoryCache |-> CachedHistory(24, <<1>>)]

\* a cached account of a family: with sub-accounts, nfts and resources
\* (rich) or with none of them
CachedAccount(family, rich) ==
  [ref |-> <<0, 0, 0>>,
   id |-> "acc1",
   name |-> "name1",
   family |-> family,
   freshAddress |-> "addr1",
   freshAddressPath |-> "path1",
   blockHeight |-> 100,
   creationDate |-> "2020-01-01T00:00:00.000Z",
   balance |-> "5",
   spendableBalance |-> "5",
   operations |-> CachedOps(1, 2),
   operationsCount |-> 2,
   pendingOperations |-> CachedOps(2, 1),
   lastSyncDate |-> "2021-01-01T00:00:00.000Z",
   syncHash |-> "hash1",
   balanceHistoryCache |-> CachedHistory(4, IF rich THEN <<1, 2>> ELSE <<>>),
   nfts |-> IF rich THEN [ref |-> <<0, 5, 0>>,
                          elems |-> <<[id |-> "nft1", amount |-> "1"]>>]
            ELSE NoArray,
   subAccounts |-> IF rich THEN [ref |-> <<0, 3, 0>>,
                                 elems |-> <<CachedToken, CachedChild>>]
                   ELSE NoArray,
   resources |-> IF rich THEN [ref |-> <<0, 6, 0>>, v |-> <<1>>] ELSE NoResources]

\* every family with the rich account; the bare one for one family of each
\* kind of the switch
BareFamilies == {"bitcoin", "polkadot", "ethereum"}
CachedAccounts ==
  { CachedAccount(f, TRUE) : f \in Families }
    \cup { CachedAccount(f, FALSE) : f \in BareFamilies }

\* ------------------------------------------------------ the raw snapshots
\* a snapshot differs from the serialised cached account in at most MaxDiffs
\* fields
MaxDiffs == 2

\* the fields of a snapshot and the number of ways each may differ
EditAlts ==
  [id |-> 1, name |-> 1, operations |-> 3, pendingOperations |-> 1,
   operationsCount |-> 2, balance |-> 2, spendableBalance |-> 2,
   lastSyncDate |-> 2, creationDate |-> 2, freshAddress |-> 1,
   freshAddressPath |-> 1, blockHeight |-> 1, syncHash |-> 1,
   balanceHistoryCache |-> 6, resources |-> 2, nfts |-> 2, subAccounts |-> 3,
   tokParentId |-> 1, tokBalance |-> 1, tokSpendableBalance |-> 1,
   tokCompoundBalance |-> 1, tokApprovals |-> 1, tokOperations |-> 1,
   tokBalanceHistoryCache |-> 3, tokType |-> 1, childBalance |-> 1]

Edits == UNION { { <<f, a>> : a \in 1..EditAlts[f] } : f \in DOMAIN EditAlts }

\* the sets of at most k edits out of E, no two of one field
RECURSIVE EditSetsOf(_, _)
EditSetsOf(E, k) ==
  IF k = 0 THEN {{}}
  ELSE LET P == EditSetsOf(E, k - 1)
       IN P \cup UNION { { d \cup {e} : e \in { x \in E : \A y \in d : y[1] # x[1] } }
                         : d \in P }
EditSets(k) == EditSetsOf(Edits, k)
\* the edits of the fields of a raw sub-account
SubEdits ==
  { e \in Edits :
      e[1] \in {"tokParentId", "tokBalance", "tokSpendableBalance",
                "tokCompoundBalance", "tokApprovals", "tokOperations",
                "tokBalanceHistoryCache", "tokType", "childBalance"} }

\* the way field f differs under the edits D, 0 when it does not
Alt(D, f) == IF \E e \in D : e[1] = f THEN (CHOOSE e \in D : e[1] = f)[2] ELSE 0

\* raw operations: 1 a new pending operation in front, 2 the newest one
\* confirmed, 3 the oldest one gone
RawOpsAlt(ops, a) ==
  IF a = 1 THEN <<RawRecord(Len(ops) + 1, 0, 0, FALSE)>> \o ops
  ELSE IF a = 0 \/ Len(ops) = 0 THEN ops
  ELSE IF a = 2 THEN [ops EXCEPT ![1].blockHeight = 100]
  ELSE SubSeq(ops, 1, Len(ops) - 1)

\* a raw history: 1 absent, 2 another latestDate, 3 one more data point,
\* 4 another last value, 5 another older value, 6 another DAY resolution
RawHistoryAlt(cache, a) ==
  LET n == Len(cache.HOUR.balances)
  IN IF a = 1 THEN NoCache
     ELSE IF a = 2 THEN [cache EXCEPT !.HOUR.latestDate = @ + 1]
     ELSE IF a = 3 THEN [cache EXCEPT !.HOUR.balances = Append(@, 9)]
     ELSE IF a = 4 /\ n > 0 THEN [cache EXCEPT !.HOUR.balances[n] = @ + 1]
     ELSE IF a = 5 /\ n > 1 THEN [cache EXCEPT !.HOUR.balances[1] = @ + 1]
     ELSE IF a = 6 THEN [cache EXCEPT !.DAY.balances = Append(@, 9)]
     ELSE cache

NewTokenRaw ==
  [type |-> "TokenAccountRaw", id |-> "t2", parentId |-> "acc1",
   balance |-> "1", spendableBalance |-> Undefined, compoundBalance |-> Undefined,
   balanceHistoryCache |-> NoCache, creationDate |-> Undefined,
   operationsCount |-> 0, operations |-> <<RawRecord(1, 100, 0, FALSE)>>,
   pendingOperations |-> <<>>, approvals |-> Undefined]

\* the edits of the members of raw.subAccounts
RawSubOf(r, D) ==
  IF r.id = "t1"
  THEN [r EXCEPT
          !.type = IF Alt(D, "tokType") = 1 THEN "ChildAccountRaw" ELSE @,
          !.parentId = IF Alt(D, "tokParentId") = 1 THEN "acc9" ELSE @,
          !.balance = IF Alt(D, "tokBalance") = 1 THEN "7" ELSE @,
          !.spendableBalance =
             IF Alt(D, "tokSpendableBalance") = 1 THEN Undefined ELSE @,
          !.compoundBalance = IF Alt(D, "tokCompoundBalance") = 1 THEN "3" ELSE @,
          !.approvals = IF Alt(D, "tokApprovals") = 1 THEN "ap2" ELSE @,
          !.operations = RawOpsAlt(@, Alt(D, "tokOperations")),
          !.balanceHistoryCache =
             RawHistoryAlt(@, IF Alt(D, "tokBalanceHistoryCache") = 1 THEN 6
                              ELSE IF Alt(D, "tokBalanceHistoryCache") = 2 THEN 2
                              ELSE IF Alt(D, "tokBalanceHistoryCache") = 3 THEN 1
                              ELSE 0)]
  ELSE IF r.id = "c1"
  THEN [r EXCEPT !.balance = IF Alt(D, "childBalance") = 1 THEN "7" ELSE @]
  ELSE r

\* raw.subAccounts: 1 absent, 2 the first member gone, 3 a new token
\* account at the end
RawSubAccountsAlt(subs, D) ==
  LET a == Alt(D, "subAccounts")
      base == IF subs = NoArray THEN <<>> ELSE subs.elems
      elems == IF a = 2 THEN SubSeq(base, 2, Len(base))
               ELSE IF a = 3 THEN Append(base, NewTokenRaw)
               ELSE base
  IN IF a = 1 \/ (a = 0 /\ subs = NoArray) THEN NoArray
     ELSE [ref |-> <<-2, 3, 0>>,
           elems |-> [k \in 1..Len(elems) |-> RawSubOf(elems[k], D)]]

\* the raw sub-accounts patchSubAccount is handed: the snapshot of a cached
\* one or a new one, under the edits D
RawSubsOf(D) ==
  { RawSubOf([r EXCEPT !.balanceHistoryCache = CopyCache(@, 14)], D) :
      r \in {toSubAccountRaw(CachedToken), toSubAccountRaw(CachedChild), NewTokenRaw} }

\* the snapshot raw of a cached account under the edits D
UpdatedRawOf(raw, D) ==
  LET alt(f) == Alt(D, f)
      pick(f, one, two, zero) ==
        IF alt(f) = 1 THEN one ELSE IF alt(f) = 2 THEN two ELSE zero
  IN [raw EXCEPT
        !.id = pick("id", "acc2", "acc2", @),
        !.name = pick("name", "name2", "name2", @),
        !.operations = RawOpsAlt(@, alt("operations")),
        !.pendingOperations = IF alt("pendingOperations") = 1 THEN <<>> ELSE @,
        !.operationsCount = pick("operationsCount", 0, 3, @),
        !.balance = pick("balance", "7", "1000000000000000000000", @),
        !.spendableBalance = pick("spendableBalance", Undefined, "7", @),
        !.lastSyncDate = pick("lastSyncDate", "2022-03-03T00:00:00.000Z",
                              "2022-02-02", @),
        !.creationDate = pick("creationDate", Undefined,
                              "2022-03-03T00:00:00.000Z", @),
        !.freshAddress = pick("freshAddress", "addr2", "addr2", @),
        !.freshAddressPath = pick("freshAddressPath", "path2", "path2", @),
        !.blockHeight = pick("blockHeight", 101, 101, @),
        !.syncHash = pick("syncHash", "hash2", "hash2", @),
        !.balanceHistoryCache = RawHistoryAlt(@, alt("balanceHistoryCache")),
        !.resources =
           IF alt("resources") = 1 THEN NoResources
           ELSE IF alt("resources") = 2 THEN [ref |-> <<-2, 6, 0>>, v |-> <<2>>]
           ELSE @,
        !.nfts =
           IF alt("nfts") = 1 THEN NoArray
           ELSE IF alt("nfts") = 2
           THEN [ref |-> <<-2, 5, 0>>, elems |-> <<[id |-> "nft1", amount |-> "2"]>>]
           ELSE @,
        !.subAccounts = RawSubAccountsAlt(@, D)]

\* ===================================================== the builder, stepwise
VARIABLES
  entry,                 \* the entry point called
  merger,                \* TRUE iff mergeSameHashOps is supplied
  existingOperations,    \* argument: the cached array
  updated,               \* argument of patchOperations (newest-first)
  coreOperations,        \* argument of the builders
  i,                     \* loop index of the walk
  state,                 \* StepBuilderState
  operationWithSameHash, \* accumulated run of one hash
  pending,               \* the operation the awaited adapter call resolves to
  pc,                    \* position in the entry point
  result,                \* the array returned
  built,                 \* operations the adapter returned, in walk order
  calls,                 \* indices of the raw records handed to the adapter
  merged,                \* groups handed to mergeSameHashOps, in call order
  fed,                   \* operations handed to stepBuilder, in call order
  account,               \* the cached Account handed to patchAccount
  updatedRaw,            \* the raw snapshot handed to patchAccount
  patched,               \* patchAccount(account, updatedRaw)
  patchedAgain,          \* patchAccount(patched, updatedRaw)
  subAccount,            \* the cached sub-account handed to patchSubAccount
  subRaw,                \* the raw sub-account handed to patchSubAccount
  patchedSub,            \* patchSubAccount(subAccount, subRaw)
  operation,             \* the operation handed to to/fromOperationRaw
  converted              \* what to/fromOperationRaw returned

extraVars == <<operation, converted>>

patchVars == <<account, updatedRaw, patched, patchedAgain, subAccount, subRaw,
               patchedSub, extraVars>>

vars == <<entry, merger, existingOperations, updated, coreOperations, i, state,
          operationWithSameHash, pending, pc, result, built, merged, fed, calls,
          patchVars>>

\* no account: the patchers are not called
NoAccount == [ref |-> <<-1, 0, 0>>]
\* no operation: the conversions are not called
NoOperation == [op |-> NoOp, accountId |-> Undefined, extra |-> NoExtra]
ExtraIdle == operation = NoOperation /\ converted = NoOperation
PatchIdle ==
  /\ ExtraIdle
  /\ account = NoAccount
  /\ updatedRaw = NoAccount
  /\ patched = NoAccount
  /\ patchedAgain = NoAccount
  /\ subAccount = NoSub
  /\ subRaw = NoAccount
  /\ patchedSub = NoSub

\* a cached list: distinct ids, newest first (the higher id is the newer)
CachedArraysOf(H) ==
  { [ref |-> <<0, 0, 0>>,
     elems |-> [k \in 1..n |->
                 [ref |-> <<0, 0, k>>, id |-> n + 1 - k, hash |-> HashOf(n + 1 - k),
                  blockHeight |-> hs[k], val |-> 0]]] :
      n \in 0..MaxExisting, hs \in [1..MaxExisting -> H] }

CachedArrays == CachedArraysOf(Heights)

IdleState == StepBuilderState(NoArray, 0, 0)

InitCommon ==
  /\ i = 0
  /\ state = IdleState
  /\ operationWithSameHash = <<>>
  /\ pending = NoOp
  /\ pc = "start"
  /\ result = NoArray
  /\ built = <<>>
  /\ merged = <<>>
  /\ fed = <<>>
  /\ calls = <<>>

Init ==
  /\ entry \in {"patchOperations", "minimalOperationsBuilderSync"}
  /\ merger = FALSE
  /\ existingOperations \in CachedArrays
  /\ \E n \in 0..MaxCore : updated \in RawSeqs(n, entry # "patchOperations")
  /\ coreOperations = IF entry = "patchOperations" THEN Reverse(updated) ELSE updated
  /\ InitCommon
  /\ PatchIdle

\* mutant: the cached array is returned whenever there is no raw record
Start_rawEmptyReturns ==
  /\ pc = "start"
  /\ entry \in {"patchOperations", "minimalOperationsBuilderSync",
                "minimalOperationsBuilder"}
  /\ IF Len(coreOperations) = 0
     THEN /\ pc' = "done"
          /\ result' = existingOperations
          /\ UNCHANGED <<state, i>>
     ELSE /\ pc' = "loop"
          /\ state' = StepBuilderState(existingOperations, 1, 0)
          /\ i' = Len(coreOperations) - 1
          /\ UNCHANGED result
  /\ UNCHANGED <<entry, merger, existingOperations, updated, coreOperations,
                 operationWithSameHash, pending, built, merged, fed>>
  /\ UNCHANGED calls
  /\ UNCHANGED patchVars

\* lines 101-110 (45-55): the early return, or the state of the walk
Start ==
  /\ pc = "start"
  /\ entry \in {"patchOperations", "minimalOperationsBuilderSync",
                "minimalOperationsBuilder"}
  /\ IF Len(existingOperations.elems) = 0 /\ Len(coreOperations) = 0
     THEN /\ pc' = "done"
          /\ result' = existingOperations
          /\ UNCHANGED <<state, i>>
     ELSE /\ pc' = "loop"
          /\ state' = StepBuilderState(existingOperations, 1, 0)
          /\ i' = Len(coreOperations) - 1
          /\ UNCHANGED result
  /\ UNCHANGED <<entry, merger, existingOperations, updated, coreOperations,
                 operationWithSameHash, pending, built, merged, fed>>
  /\ UNCHANGED calls
  /\ UNCHANGED patchVars

AdapterOf(e) == IF e = "patchOperations" THEN "fromOperationRaw" ELSE "buildOp"

\* one iteration of the loop of minimalOperationsBuilderSync (112-121)
\* mutant: the step is run also for a record the adapter skipped
SyncStep_stepsSkipped ==
  /\ pc = "loop"
  /\ entry # "minimalOperationsBuilder"
  /\ i >= 0
  /\ LET newOp == Adapter(AdapterOf(entry), coreOperations[i + 1], i, 1, 0)
         s == stepBuilder(state, newOp, i, 1, 0)
     IN /\ state' = s
        /\ built' = IF newOp = NoOp THEN built ELSE Append(built, newOp)
        /\ fed' = Append(fed, newOp)
        /\ IF s.finished
           THEN /\ pc' = "done"
                /\ result' = s.operations
                /\ UNCHANGED i
           ELSE /\ i' = i - 1
                /\ UNCHANGED <<pc, result>>
  /\ UNCHANGED <<entry, merger, existingOperations, updated, coreOperations,
                 operationWithSameHash, pending, merged>>
  /\ calls' = Append(calls, i)
  /\ UNCHANGED patchVars

SyncStep ==
  /\ pc = "loop"
  /\ entry # "minimalOperationsBuilder"
  /\ i >= 0
  /\ LET newOp == Adapter(AdapterOf(entry), coreOperations[i + 1], i, 1, 0)
     IN IF newOp = NoOp
        THEN /\ i' = i - 1
             /\ UNCHANGED <<state, pc, result, built, fed>>
        ELSE LET s == stepBuilder(state, newOp, i, 1, 0)
             IN /\ state' = s
                /\ built' = Append(built, newOp)
                /\ fed' = Append(fed, newOp)
                /\ IF s.finished
                   THEN /\ pc' = "done"
                        /\ result' = s.operations
                        /\ UNCHANGED i
                   ELSE /\ i' = i - 1
                        /\ UNCHANGED <<pc, result>>
  /\ UNCHANGED <<entry, merger, existingOperations, updated, coreOperations,
                 operationWithSameHash, pending, merged>>
  /\ calls' = Append(calls, i)
  /\ UNCHANGED patchVars

\* the loop is over: return state.operations (123)
SyncReturn ==
  /\ pc = "loop"
  /\ entry # "minimalOperationsBuilder"
  /\ i < 0
  /\ pc' = "done"
  /\ result' = state.operations
  /\ UNCHANGED <<entry, merger, existingOperations, updated, coreOperations, i,
                 state, operationWithSameHash, pending, built, merged, fed>>
  /\ UNCHANGED calls
  /\ UNCHANGED patchVars

Next == Start \/ SyncStep \/ SyncReturn

Spec == Init /\ [][Next]_vars

\* ------------------------------------------------ minimalOperationsBuilder
\* raw sequences of n confirmed records in which ids (and so hashes) may
\* repeat, with at most one altered and at most one skipped record
RawRuns(n) ==
  { [k \in 1..n |-> RawRecord(ids[k], 100, IF k = stale THEN 1 ELSE 0, k = skp)] :
      ids \in [1..n -> Ids], stale \in 0..n, skp \in 0..n }

InitAsync ==
  /\ entry = "minimalOperationsBuilder"
  /\ merger \in BOOLEAN
  /\ existingOperations \in CachedArraysOf({100})
  /\ \E n \in 0..(MaxCore + 1) : updated \in RawRuns(n)
  /\ coreOperations = updated
  /\ InitCommon
  /\ PatchIdle

\* line 59: buildOp is called on coreOperations[i] and awaited
\* mutant: the records are handed to the adapter from the first index up
AsyncCall_fromFirst ==
  /\ pc = "loop"
  /\ entry = "minimalOperationsBuilder"
  /\ i >= 0
  /\ pending' = buildOp(coreOperations[Len(coreOperations) - i], i, 1, 0)
  /\ pc' = "await"
  /\ UNCHANGED <<entry, merger, existingOperations, updated, coreOperations, i,
                 state, operationWithSameHash, result, built, merged, fed>>
  /\ calls' = Append(calls, Len(coreOperations) - 1 - i)
  /\ UNCHANGED patchVars

AsyncCall ==
  /\ pc = "loop"
  /\ entry = "minimalOperationsBuilder"
  /\ i >= 0
  /\ pending' = buildOp(coreOperations[i + 1], i, 1, 0)
  /\ pc' = "await"
  /\ UNCHANGED <<entry, merger, existingOperations, updated, coreOperations, i,
                 state, operationWithSameHash, result, built, merged, fed>>
  /\ calls' = Append(calls, i)
  /\ UNCHANGED patchVars

\* mutant: the operation that ends a run is not kept as the start of the next
AsyncResume_runRestarted ==
  /\ pc = "await"
  /\ pending' = NoOp
  /\ IF pending = NoOp
     THEN /\ i' = i - 1
          /\ pc' = "loop"
          /\ UNCHANGED <<state, operationWithSameHash, result, built, merged, fed>>
     ELSE /\ built' = Append(built, pending)
          /\ IF merger /\ (Len(operationWithSameHash) = 0
                           \/ operationWithSameHash[1].hash = pending.hash)
             THEN /\ operationWithSameHash' = Append(operationWithSameHash, pending)
                  /\ i' = i - 1
                  /\ pc' = "loop"
                  /\ UNCHANGED <<state, result, merged, fed>>
             ELSE LET newOp == IF merger
                               THEN mergeSameHashOps(operationWithSameHash, 1, 0)
                               ELSE pending
                      s == stepBuilder(state, newOp, i, 1, 0)
                  IN /\ operationWithSameHash' =
                          IF merger THEN <<>> ELSE operationWithSameHash
                     /\ merged' = IF merger THEN Append(merged, operationWithSameHash)
                                            ELSE merged
                     /\ fed' = Append(fed, newOp)
                     /\ state' = s
                     /\ IF s.finished
                        THEN /\ pc' = "done"
                             /\ result' = s.operations
                             /\ UNCHANGED i
                        ELSE /\ pc' = "loop"
                             /\ i' = i - 1
                             /\ UNCHANGED result
  /\ UNCHANGED <<entry, merger, existingOperations, updated, coreOperations>>
  /\ UNCHANGED calls
  /\ UNCHANGED patchVars

\* lines 60-87: the awaited call has resolved, the rest of the iteration runs
AsyncResume ==
  /\ pc = "await"
  /\ pending' = NoOp
  /\ IF pending = NoOp
     THEN /\ i' = i - 1
          /\ pc' = "loop"
          /\ UNCHANGED <<state, operationWithSameHash, result, built, merged, fed>>
     ELSE /\ built' = Append(built, pending)
          /\ IF merger /\ (Len(operationWithSameHash) = 0
                           \/ operationWithSameHash[1].hash = pending.hash)
             THEN /\ operationWithSameHash' = Append(operationWithSameHash, pending)
                  /\ i' = i - 1
                  /\ pc' = "loop"
                  /\ UNCHANGED <<state, result, merged, fed>>
             ELSE LET newOp == IF merger
                               THEN mergeSameHashOps(operationWithSameHash, 1, 0)
                               ELSE pending
                      s == stepBuilder(state, newOp, i, 1, 0)
                  IN /\ operationWithSameHash' =
                          IF merger THEN <<pending>> ELSE operationWithSameHash
                     /\ merged' = IF merger THEN Append(merged, operationWithSameHash)
                                            ELSE merged
                     /\ fed' = Append(fed, newOp)
                     /\ state' = s
                     /\ IF s.finished
                        THEN /\ pc' = "done"
                             /\ result' = s.operations
                             /\ UNCHANGED i
                        ELSE /\ pc' = "loop"
                             /\ i' = i - 1
                             /\ UNCHANGED result
  /\ UNCHANGED <<entry, merger, existingOperations, updated, coreOperations>>
  /\ UNCHANGED calls
  /\ UNCHANGED patchVars

\* lines 90-94: the last accumulated run is merged and fed, then the return
\* mutant: the last accumulated run is never released
AsyncReturn_noFlush ==
  /\ pc = "loop"
  /\ entry = "minimalOperationsBuilder"
  /\ i < 0
  /\ result' = state.operations
  /\ pc' = "done"
  /\ UNCHANGED <<entry, merger, existingOperations, updated, coreOperations, i,
                 state, operationWithSameHash, pending, built, merged, fed>>
  /\ UNCHANGED calls
  /\ UNCHANGED patchVars

AsyncReturn ==
  /\ pc = "loop"
  /\ entry = "minimalOperationsBuilder"
  /\ i < 0
  /\ IF merger /\ Len(operationWithSameHash) # 0
     THEN LET newOp == mergeSameHashOps(operationWithSameHash, 1, 0)
              s == stepBuilder(state, newOp, 0, 1, 0)
          IN /\ state' = s
             /\ merged' = Append(merged, operationWithSameHash)
             /\ fed' = Append(fed, newOp)
             /\ result' = s.operations
     ELSE /\ result' = state.operations
          /\ UNCHANGED <<state, merged, fed>>
  /\ pc' = "done"
  /\ UNCHANGED <<entry, merger, existingOperations, updated, coreOperations, i,
                 operationWithSameHash, pending, built>>
  /\ UNCHANGED calls
  /\ UNCHANGED patchVars

NextAsync == Start \/ AsyncCall \/ AsyncResume \/ AsyncReturn

SpecAsync == InitAsync /\ [][NextAsync]_vars

\* ------------------------------------------------------------ the patchers
builderVars == <<entry, merger, existingOperations, updated, coreOperations, i, state,
                 operationWithSameHash, pending, result, built, merged, fed,
                 calls>>

InitPatch ==
  /\ entry = "patchAccount"
  /\ merger = FALSE
  /\ existingOperations = NoArray
  /\ updated = <<>>
  /\ coreOperations = <<>>
  /\ InitCommon
  /\ ExtraIdle
  /\ account \in CachedAccounts
  /\ updatedRaw = NoAccount
  /\ patched = NoAccount
  /\ patchedAgain = NoAccount
  /\ subAccount = NoSub
  /\ subRaw = NoAccount
  /\ patchedSub = NoSub

\* patchAccount(account, updatedRaw) on a snapshot of the cached account
CallPatchAccount ==
  /\ pc = "start"
  /\ entry = "patchAccount"
  /\ LET snapshot == Snapshot(toAccountRaw(account))
     IN \E D \in EditSets(MaxDiffs) :
          /\ updatedRaw' = UpdatedRawOf(snapshot, D)
          /\ patched' = patchAccount(account, updatedRaw', 1)
  /\ pc' = "patched"
  /\ UNCHANGED <<account, patchedAgain, subAccount, subRaw, patchedSub, extraVars>>
  /\ UNCHANGED builderVars

\* the same snapshot again, against the account the first call returned
CallPatchAccountAgain ==
  /\ pc = "patched"
  /\ patchedAgain' = patchAccount(patched, updatedRaw, 2)
  /\ pc' = "again"
  /\ UNCHANGED <<account, updatedRaw, patched, subAccount, subRaw, patchedSub,
                 extraVars>>
  /\ UNCHANGED builderVars

\* patchSubAccount(subAccount, subRaw) on a cached sub-account of the
\* account, or none, and a raw sub-account
CallPatchSubAccount ==
  /\ pc = "start"
  /\ entry = "patchAccount"
  /\ \E S \in {NoSub} \cup { account.subAccounts.elems[k] :
                               k \in 1..Len(account.subAccounts.elems) } :
       \E D \in EditSetsOf(SubEdits, MaxDiffs) :
         \E R \in RawSubsOf(D) :
           /\ subAccount' = S
           /\ subRaw' = R
           /\ patchedSub' = patchSubAccount(S, R, 1, 10)
  /\ pc' = "sub"
  /\ UNCHANGED <<account, updatedRaw, patched, patchedAgain, extraVars>>
  /\ UNCHANGED builderVars

\* a sub-account raw record of a format this version does not know
InvalidRawType == "LegacyAccountRaw"
MalformedRaw(raw) == [raw EXCEPT !.subAccounts.elems[1].type = InvalidRawType]

\* patchAccount on a snapshot whose first sub-account record has an
\* unrecognized type
CallPatchAccountMalformed ==
  /\ pc = "start"
  /\ entry = "patchAccount"
  /\ LET snapshot == Snapshot(toAccountRaw(account))
     IN \E D \in EditSets(MaxDiffs - 1) :
          /\ Len(UpdatedRawOf(snapshot, D).subAccounts.elems) >= 1
          /\ updatedRaw' = MalformedRaw(UpdatedRawOf(snapshot, D))
          /\ patched' = patchAccount(account, updatedRaw', 1)
  /\ pc' = "malformed"
  /\ UNCHANGED <<account, patchedAgain, subAccount, subRaw, patchedSub, extraVars>>
  /\ UNCHANGED builderVars

\* patchSubAccount on a raw sub-account of an unrecognized type
CallPatchSubAccountMalformed ==
  /\ pc = "start"
  /\ entry = "patchAccount"
  /\ \E S \in {NoSub} \cup { account.subAccounts.elems[k] :
                               k \in 1..Len(account.subAccounts.elems) } :
       \E D \in EditSetsOf(SubEdits, MaxDiffs - 1) :
         \E R \in RawSubsOf(D) :
           /\ subAccount' = S
           /\ subRaw' = [R EXCEPT !.type = InvalidRawType]
           /\ patchedSub' = patchSubAccount(S, subRaw', 1, 10)
  /\ pc' = "malformedSub"
  /\ UNCHANGED <<account, updatedRaw, patched, patchedAgain, extraVars>>
  /\ UNCHANGED builderVars

NextPatch ==
  \/ CallPatchAccount \/ CallPatchAccountAgain \/ CallPatchSubAccount
  \/ CallPatchAccountMalformed \/ CallPatchSubAccountMalformed

SpecPatch == InitPatch /\ [][NextPatch]_vars

\* --------------------------------------- toOperationRaw, fromOperationRaw
\* an operation (a raw operation) of any account id, with or without extra
OperationsWithExtra(form) ==
  { [op |-> o, accountId |-> a, extra |-> e] :
      o \in IF form = "live"
            THEN { OpOfRaw(RawRecord(d, h, 0, FALSE), 0, 0, 0) : d \in Ids, h \in Heights }
            ELSE { RawRecord(d, h, 0, FALSE) : d \in Ids, h \in Heights },
      a \in AccountIds,
      e \in {NoExtra} \cup { x \in Extras : x.form = form } }

InitExtra ==
  /\ entry \in {"toOperationRaw", "fromOperationRaw"}
  /\ merger = FALSE
  /\ existingOperations = NoArray
  /\ updated = <<>>
  /\ coreOperations = <<>>
  /\ InitCommon
  /\ account = NoAccount
  /\ updatedRaw = NoAccount
  /\ patched = NoAccount
  /\ patchedAgain = NoAccount
  /\ subAccount = NoSub
  /\ subRaw = NoAccount
  /\ patchedSub = NoSub
  /\ operation \in OperationsWithExtra(IF entry = "toOperationRaw" THEN "live" ELSE "raw")
  /\ converted = NoOperation

CallToOperationRaw ==
  /\ pc = "start"
  /\ entry = "toOperationRaw"
  /\ converted' = toOperationRawWithExtra(operation)
  /\ pc' = "converted"
  /\ UNCHANGED <<operation, account, updatedRaw, patched, patchedAgain, subAccount,
                 subRaw, patchedSub>>
  /\ UNCHANGED builderVars

CallFromOperationRaw ==
  /\ pc = "start"
  /\ entry = "fromOperationRaw"
  /\ converted' = fromOperationRawWithExtra(operation, operation.accountId, 1)
  /\ pc' = "converted"
  /\ UNCHANGED <<operation, account, updatedRaw, patched, patchedAgain, subAccount,
                 subRaw, patchedSub>>
  /\ UNCHANGED builderVars

NextExtra == CallToOperationRaw \/ CallFromOperationRaw

SpecExtra == InitExtra /\ [][NextExtra]_vars

\* ------------------------------------------------------ every entry point
\* one call of any of the five entry points
InitAll == Init \/ InitAsync \/ InitPatch

NextAll ==
  \/ Start \/ SyncStep \/ SyncReturn
  \/ AsyncCall \/ AsyncResume \/ AsyncReturn
  \/ CallPatchAccount \/ CallPatchAccountAgain \/ CallPatchSubAccount
  \/ CallPatchAccountMalformed \/ CallPatchSubAccountMalformed

SpecAll == InitAll /\ [][NextAll]_vars

\* ================================================= properties of the builder
\* the operations the adapter builds from the raw records, in the order of
\* the walk (newest first, skipped records omitted)
RECURSIVE WalkFrom(_, _, _)
WalkFrom(coreOps, k, adapter) ==
  IF k < 0 THEN <<>>
  ELSE LET op == Adapter(adapter, coreOps[k + 1], k, 1, 0)
       IN (IF op = NoOp THEN <<>> ELSE <<op>>) \o WalkFrom(coreOps, k - 1, adapter)

Walk == WalkFrom(coreOperations, Len(coreOperations) - 1, AdapterOf(entry))
Cached == existingOperations.elems
Out == result.elems
IdsOf(ops) == { ops[k].id : k \in 1..Len(ops) }
PosOf(ops, id) == FindIndex(ops, id)

\* the built operation is the cached one: same id, same height, sameOp
Unaltered(c, w) == c.id = w.id /\ c.blockHeight = w.blockHeight /\ sameOp(c, w)

\* ---- C2
SameHistory(w) ==
  /\ Len(w) = Len(Cached)
  /\ \A k \in 1..Len(Cached) : Unaltered(Cached[k], w[k])

\* C2: when the operations built from raw are exactly the cached ones, the
\* builder returns the existingOperations array itself
C2_UnchangedReturnsCachedArray ==
  (pc = "done" /\ SameHistory(Walk)) => result.ref = existingOperations.ref

\* ---- C3
Prepended(k, w) ==
  /\ k >= 1
  /\ Len(w) = k + Len(Cached)
  /\ \A m \in 1..k : w[m].id \notin IdsOf(Cached)
  /\ \A m \in 1..Len(Cached) : Unaltered(Cached[m], w[k + m])

\* C3: with k >= 1 new operations in front of an otherwise unchanged
\* history the output is the k built operations followed by the cached
\* operations themselves
C3_ReferentialMinimality ==
  pc = "done" =>
    LET w == Walk
        k == Len(w) - Len(Cached)
    IN Prepended(k, w) =>
         /\ Len(Out) = k + Len(Cached)
         /\ \A m \in 1..k : Out[m] = w[m]
         /\ \A m \in 1..Len(Cached) : Out[k + m].ref = Cached[m].ref

C3_Witness ==
  /\ pc = "done" /\ entry = "patchOperations"
  /\ Prepended(1, Walk) /\ Len(Cached) = 2
  /\ Walk[1].blockHeight = 0
  /\ Out[2].ref = Cached[1].ref /\ Out[3].ref = Cached[2].ref

\* ---- C4
\* the history is unchanged but for the operation at position p, cached with
\* a null height and now confirmed
ConfirmedAt(p, w) ==
  /\ Len(w) = Len(Cached)
  /\ p \in 1..Len(Cached)
  /\ Cached[p].blockHeight = 0
  /\ w[p].id = Cached[p].id /\ w[p].blockHeight = 100
  /\ sameOp(Cached[p], w[p])
  /\ \A k \in 1..Len(Cached) : k # p => Unaltered(Cached[k], w[k])

UpdatedAt(p, w) ==
  /\ state.warned = 0
  /\ Len(Out) = Len(Cached)
  /\ Out[p] = w[p]
  /\ Cardinality({ k \in 1..Len(Out) : Out[k].id = w[p].id }) = 1

\* C4: an operation cached with a null blockHeight, at any position, that
\* raw now reports confirmed is replaced in the output, once, without a
\* diagnostic and without a change of length
C4_BlockHeightExceptionAnyPosition ==
  pc = "done" =>
    LET w == Walk
    IN \A p \in 1..Len(Cached) : ConfirmedAt(p, w) => UpdatedAt(p, w)

\* ---- C6
OrdersAgree(w) ==
  \A a, b \in IdsOf(w) \cap IdsOf(Cached) :
    PosOf(w, a) < PosOf(w, b) <=> PosOf(Cached, a) < PosOf(Cached, b)

\* C6: when cache and raw agree on the order of the ids they share, any two
\* operations of the output stand in the order of the walk (newest first)
\* and in the order of the cached list
C6_OrderPreserved ==
  pc = "done" =>
    LET w == Walk
    IN OrdersAgree(w) =>
         \A p, q \in 1..Len(Out) :
           p < q =>
             /\ Out[p].id # Out[q].id
             /\ ({Out[p].id, Out[q].id} \subseteq IdsOf(w)
                   => PosOf(w, Out[p].id) < PosOf(w, Out[q].id))
             /\ ({Out[p].id, Out[q].id} \subseteq IdsOf(Cached)
                   => PosOf(Cached, Out[p].id) < PosOf(Cached, Out[q].id))

\* a new operation, a confirmed one and a reused one in front of the
\* appended cached suffix
C6_Witness ==
  /\ pc = "done" /\ OrdersAgree(Walk)
  /\ result.ref = <<1, 0, 1>>
  /\ Len(Out) >= 3
  /\ \E p, q \in 1..Len(Out) :
        /\ Out[p].ref[1] = 1 /\ Out[p].id \in IdsOf(Cached)
        /\ Out[q].ref[1] = 0

\* ---- C7
\* the first built operation that has a cached twin of the same height, 0 if none
FirstCompared(w) ==
  LET hit(k) == /\ w[k].id \in IdsOf(Cached)
                /\ Cached[PosOf(Cached, w[k].id)].blockHeight = w[k].blockHeight
  IN IF \E k \in 1..Len(w) : hit(k)
     THEN CHOOSE k \in 1..Len(w) : hit(k) /\ \A m \in 1..(k - 1) : ~hit(m)
     ELSE 0

StaleCache(w) ==
  LET f == FirstCompared(w)
  IN f # 0 /\ ~sameOp(Cached[PosOf(Cached, w[f].id)], w[f])

\* C7: when the first compared cached operation fails sameOp, one diagnostic
\* is emitted, the cache window is emptied and the output is all the
\* operations built from raw, none of them a cached object
C7_StaleCacheRecovery ==
  pc = "done" =>
    LET w == Walk
    IN StaleCache(w) =>
         /\ state.warned = 1
         /\ state.existingOps.elems = <<>>
         /\ Out = w
         /\ \A k \in 1..Len(Out) : \A m \in 1..Len(Cached) : Out[k].ref # Cached[m].ref

C7_Witness ==
  /\ pc = "done" /\ StaleCache(Walk)
  /\ Len(Cached) >= 2 /\ Len(Out) >= 3
  /\ FirstCompared(Walk) >= 2

\* ---- C5
\* three records of one hash, then one of another hash
IsAAAB(s) ==
  /\ Len(s) = 4
  /\ \A k \in 1..4 : ~s[k].skip
  /\ s[1].hash = s[2].hash /\ s[2].hash = s[3].hash
  /\ s[4].hash # s[1].hash

MergedAThenB(hashA, hashB) ==
  /\ \E g \in 1..Len(merged) :
        Len(merged[g]) = 3 /\ \A k \in 1..3 : merged[g][k].hash = hashA
  /\ Len(Out) = 2
  /\ Out[1].hash = hashA /\ Out[2].hash = hashB

\* C5 as stated: coreOperations is the sequence [A,A,A,B] itself, taken to
\* be newest-first
C5_HashMergingAsGiven ==
  (pc = "done" /\ merger /\ Len(Cached) = 0 /\ IsAAAB(coreOperations)) =>
    MergedAThenB(coreOperations[1].hash, coreOperations[4].hash)

\* C5: with an empty cache, a merger, and the raw sequence [A,A,A,B]
\* (newest-first) handed over the way the builder walks it, last index
\* first (coreOperations = [B,A,A,A]), the merger gets one group of the
\* three A operations and the result is merged-A, then B
C5_HashMerging ==
  LET w == Reverse(coreOperations) IN
  (pc = "done" /\ merger /\ Len(Cached) = 0 /\ IsAAAB(w)) =>
    /\ MergedAThenB(w[1].hash, w[4].hash)
    /\ merged = << SubSeq(Walk, 1, 3), SubSeq(Walk, 4, 4) >>
    /\ Out = << mergeSameHashOps(SubSeq(Walk, 1, 3), 1, 0),
                mergeSameHashOps(SubSeq(Walk, 4, 4), 1, 0) >>

C5_Witness ==
  /\ pc = "done" /\ merger /\ Len(Cached) = 0
  /\ IsAAAB(Reverse(coreOperations))
  /\ Len(Out) = 2 /\ Len(merged) = 2 /\ Len(merged[1]) = 3

\* ================================================ properties of the patchers
\* every object reference held by a list of operations, a sub-account, an
\* account
RefsOfOps(ops) == {ops.ref} \cup { ops.elems[k].ref : k \in 1..Len(ops.elems) }
RefsOfSub(s) ==
  {s.ref, s.balanceHistoryCache.ref} \cup RefsOfOps(s.operations)
    \cup RefsOfOps(s.pendingOperations)
RefsOfAccount(a) ==
  {a.ref, a.balanceHistoryCache.ref, a.nfts.ref, a.resources.ref, a.subAccounts.ref}
    \cup RefsOfOps(a.operations) \cup RefsOfOps(a.pendingOperations)
    \cup UNION { RefsOfSub(a.subAccounts.elems[k]) : k \in 1..Len(a.subAccounts.elems) }
\* the references of the cached graph are those of generation 0
OfCache(r) == r[1] = 0

\* C1: for a cached Account A and a snapshot R of the same id, with
\* A1 = patchAccount(A, R), the call patchAccount(A1, R) returns A1 itself
C1_PatchAccountIdempotent ==
  (pc = "again" /\ account.id = updatedRaw.id)
    => patchedAgain.ref = patched.ref

\* C8: patchAccount with another id returns fromAccountRaw(R), patchSubAccount
\* with no cached sub-account, another id or another parentId returns
\* fromSubAccountRaw(R), and nothing of the cached entity is in the result
Rebuilt ==
  \/ subAccount = NoSub
  \/ subAccount.id # subRaw.id
  \/ subAccount.parentId # subRaw.parentId
C8_FullRebuildOnIdentityChange ==
  /\ (pc \in {"patched", "again"} /\ account.id # updatedRaw.id)
       => /\ patched = fromAccountRaw(updatedRaw, 1)
          /\ \A r \in RefsOfAccount(patched) : ~OfCache(r)
  /\ (pc = "sub" /\ Rebuilt)
       => /\ patchedSub = fromSubAccountRaw(subRaw, 1, patchedSub.ref[2])
          /\ \A r \in RefsOfSub(patchedSub) : ~OfCache(r)
C8_Witness ==
  /\ pc = "sub"
  /\ subAccount # NoSub
  /\ subAccount.id = subRaw.id
  /\ subAccount.parentId # subRaw.parentId
  /\ patchedSub.parentId = subRaw.parentId
  /\ patchedSub.operations.ref # subAccount.operations.ref

\* C9: the cached balance history is replaced by the candidate exactly when,
\* at the HOUR resolution, the latestDate values differ, or the lengths of
\* the balances differ, or the lengths are equal and not zero and the last
\* values differ
HourDiffers(cached, candidate) ==
  LET old == cached.HOUR.balances
      new == candidate.HOUR.balances
  IN \/ cached.HOUR.latestDate # candidate.HOUR.latestDate
     \/ Len(old) # Len(new)
     \/ (Len(old) = Len(new) /\ Len(new) # 0 /\ old[Len(new)] # new[Len(new)])
C9_BalanceHistoryInvalidation ==
  (pc \in {"patched", "again"} /\ account.id = updatedRaw.id
     /\ updatedRaw.balanceHistoryCache # NoCache)
    => IF HourDiffers(account.balanceHistoryCache, updatedRaw.balanceHistoryCache)
       THEN patched.balanceHistoryCache = updatedRaw.balanceHistoryCache
       ELSE patched.balanceHistoryCache = account.balanceHistoryCache
C9_Witness ==
  LET old == account.balanceHistoryCache.HOUR
      new == updatedRaw.balanceHistoryCache.HOUR
  IN /\ pc = "patched"
     /\ account.id = updatedRaw.id
     /\ updatedRaw.balanceHistoryCache # NoCache
     /\ old.latestDate = new.latestDate
     /\ Len(old.balances) = Len(new.balances)
     /\ Len(new.balances) > 1
     /\ old.balances[Len(new.balances)] # new.balances[Len(new.balances)]
     /\ patched.balanceHistoryCache.ref = updatedRaw.balanceHistoryCache.ref
     /\ patched.balanceHistoryCache.ref # account.balanceHistoryCache.ref

\* C10: for matching ids the patchers return the cached object itself when
\* no compared field differs, and otherwise a new object in which every field
\* whose raw value equals the cached value is the cached one (the same
\* reference for operations, pendingOperations, subAccounts and
\* balanceHistoryCache) and only fields that differ are replaced.
\* A raw string equals a cached number or date when it is the string the
\* cached value prints as; an optional raw field that is absent differs from
\* nothing, except spendableBalance, whose absence differs from any value.
OpsDiffer(cachedOps, rawOps) ==
  \/ Len(cachedOps.elems) # Len(rawOps)
  \/ \E k \in 1..Len(rawOps) :
       \/ cachedOps.elems[k].id # rawOps[k].id
       \/ cachedOps.elems[k].blockHeight # rawOps[k].blockHeight
       \/ cachedOps.elems[k].val # rawOps[k].val
HistoryDiffers(cached, raw) ==
  raw # NoCache /\ (raw.HOUR # cached.HOUR \/ raw.DAY # cached.DAY)
SubDiffers(cached, raw) ==
  LET token == cached.type = "TokenAccount" /\ raw.type = "TokenAccountRaw"
  IN [type |-> (cached.type = "TokenAccount") # (raw.type = "TokenAccountRaw"),
      id |-> cached.id # raw.id,
      parentId |-> cached.parentId # raw.parentId,
      operations |-> OpsDiffer(cached.operations, raw.operations),
      pendingOperations |-> OpsDiffer(cached.pendingOperations, raw.pendingOperations),
      operationsCount |-> raw.operationsCount # 0
                          /\ raw.operationsCount # cached.operationsCount,
      creationDate |-> IsSet(raw.creationDate) /\ raw.creationDate # cached.creationDate,
      balance |-> raw.balance # cached.balance,
      spendableBalance |-> token /\ raw.spendableBalance # cached.spendableBalance,
      compoundBalance |-> token /\ raw.compoundBalance # cached.compoundBalance,
      approvals |-> token /\ IsSet(raw.approvals) /\ raw.approvals # cached.approvals,
      balanceHistoryCache |-> HistoryDiffers(cached.balanceHistoryCache,
                                             raw.balanceHistoryCache)]
SubAccountsDiffer(cachedSubs, rawSubs) ==
  /\ rawSubs # NoArray
  /\ \/ cachedSubs = NoArray
     \/ Len(cachedSubs.elems) # Len(rawSubs.elems)
     \/ \E k \in 1..Len(rawSubs.elems) :
          LET d == SubDiffers(cachedSubs.elems[k], rawSubs.elems[k])
          IN \E f \in DOMAIN d : d[f]
AccountDiffers(cached, raw) ==
  [name |-> FALSE,
   family |-> FALSE,
   subAccounts |-> SubAccountsDiffer(cached.subAccounts, raw.subAccounts),
   operations |-> OpsDiffer(cached.operations, raw.operations),
   pendingOperations |-> OpsDiffer(cached.pendingOperations, raw.pendingOperations),
   operationsCount |-> raw.operationsCount # 0
                       /\ raw.operationsCount # cached.operationsCount,
   balance |-> raw.balance # cached.balance,
   spendableBalance |-> raw.spendableBalance # cached.spendableBalance,
   lastSyncDate |-> raw.lastSyncDate # cached.lastSyncDate,
   creationDate |-> IsSet(raw.creationDate) /\ raw.creationDate # cached.creationDate,
   freshAddress |-> raw.freshAddress # cached.freshAddress,
   freshAddressPath |-> raw.freshAddressPath # cached.freshAddressPath,
   blockHeight |-> raw.blockHeight # cached.blockHeight,
   syncHash |-> raw.syncHash # cached.syncHash,
   balanceHistoryCache |-> HistoryDiffers(cached.balanceHistoryCache,
                                          raw.balanceHistoryCache),
   nfts |-> IF raw.nfts = NoArray THEN cached.nfts # NoArray
            ELSE \/ cached.nfts = NoArray
                 \/ raw.nfts.elems # cached.nfts.elems,
   resources |-> raw.resources # NoResources
                 /\ (cached.resources = NoResources
                     \/ raw.resources.v # cached.resources.v)]
\* what a call returned (res) for the cached object and the differences d
Framed(cached, d, res) ==
  /\ (\A f \in DOMAIN d : ~d[f]) => res = cached
  /\ res.ref = cached.ref => res = cached
  /\ res.ref # cached.ref =>
       /\ res.ref[1] > cached.ref[1]
       /\ res.id = cached.id
       /\ \A f \in DOMAIN d :
            ~d[f] => IF f = "resources" THEN res[f].v = cached[f].v
                     ELSE res[f] = cached[f]
Kept(x, c) == x.ref = c.ref => x = c

KeptOps(out, in) ==
  /\ Kept(out, in)
  /\ \A k \in 1..Len(out.elems) : \A m \in 1..Len(in.elems) :
       Kept(out.elems[k], in.elems[m])

\* the lists of operations, the sub-accounts and the history caches of an
\* account
OpsArraysOfSubs(subs) ==
  UNION { {subs.elems[k].operations, subs.elems[k].pendingOperations} :
            k \in 1..Len(subs.elems) }
OpsArraysOf(a) ==
  {a.operations, a.pendingOperations} \cup OpsArraysOfSubs(a.subAccounts)
SubsOf(a) == { a.subAccounts.elems[k] : k \in 1..Len(a.subAccounts.elems) }
CachesOf(a) ==
  {a.balanceHistoryCache} \cup { x.balanceHistoryCache : x \in SubsOf(a) }

KeptSub(out, in) ==
  /\ Kept(out, in)
  /\ \A x \in {out.operations, out.pendingOperations} :
       \A c \in {in.operations, in.pendingOperations} : KeptOps(x, c)
  /\ Kept(out.balanceHistoryCache, in.balanceHistoryCache)

\* no object of the input graph `in` shows up in `out` with another content
KeptAccount(out, in) ==
  /\ Kept(out, in)
  /\ Kept(out.subAccounts, in.subAccounts)
  /\ Kept(out.nfts, in.nfts)
  /\ Kept(out.resources, in.resources)
  /\ \A x \in OpsArraysOf(out) : \A c \in OpsArraysOf(in) : KeptOps(x, c)
  /\ \A x \in SubsOf(out) : \A c \in SubsOf(in) : Kept(x, c)
  /\ \A x \in CachesOf(out) : \A c \in CachesOf(in) : Kept(x, c)

\* the raw history caches a patched entity may hold are as in the snapshot
KeptRawCaches(out, raw) ==
  \A x \in CachesOf(out) :
    \A c \in {raw.balanceHistoryCache}
             \cup { raw.subAccounts.elems[k].balanceHistoryCache :
                      k \in 1..Len(raw.subAccounts.elems) } : Kept(x, c)

\* C11: the inputs are read-only.  In a builder run every array that is
\* the caller's existingOperations (the state's output list, its cache
\* window, the result) has the caller's elements, so nothing was pushed
\* onto it, and every cached Operation met in the run or in the result is
\* as it was cached; after patchAccount and patchSubAccount every object
\* of the cached graph and of the raw snapshot that the result holds is as
\* it was handed in
C11_InputsReadOnly ==
  /\ pc \in {"loop", "await", "done"} =>
       \A arr \in {state.operations, state.existingOps, result} :
         KeptOps(arr, existingOperations)
  /\ \A k \in 1..Len(fed) : \A m \in 1..Len(Cached) : Kept(fed[k], Cached[m])
  /\ pc \in {"patched", "again"} =>
       /\ KeptAccount(patched, account)
       /\ KeptRawCaches(patched, updatedRaw)
  /\ pc = "again" =>
       /\ KeptAccount(patchedAgain, patched)
       /\ KeptAccount(patchedAgain, account)
       /\ KeptRawCaches(patchedAgain, updatedRaw)
  /\ pc = "sub" =>
       /\ KeptSub(patchedSub, subAccount)
       /\ Kept(patchedSub.balanceHistoryCache, subRaw.balanceHistoryCache)

\* the state's output list has been set to the cache array, and the run
\* has returned it
C11_Witness ==
  /\ entry = "minimalOperationsBuilder" /\ pc = "done"
  /\ Len(Cached) = 2
  /\ state.finished /\ state.operations.ref = existingOperations.ref
  /\ result = existingOperations
  /\ Len(fed) >= 1

\* ---- C12
\* the state of the synchronous walk once the records above index lo have
\* been handled
RECURSIVE SyncWalkDownTo(_, _, _, _)
SyncWalkDownTo(st, coreOps, k, lo) ==
  IF k <= lo \/ st.finished THEN st
  ELSE LET newOp == Adapter("buildOp", coreOps[k + 1], k, 1, 0)
       IN SyncWalkDownTo(IF newOp = NoOp THEN st
                         ELSE stepBuilder(st, newOp, k, 1, 0),
                         coreOps, k - 1, lo)

\* what the adapter resolves to for the records above index lo, in the
\* order of the walk
ResolvedAbove(lo) ==
  LET w == Walk
      n == Cardinality({ k \in (lo + 2)..Len(coreOperations) :
                           ~coreOperations[k].skip })
  IN SubSeq(w, 1, n)

\* C12: without a merger, while the adapter call for record i is awaited
\* no other call is in flight, the adapter has been called on exactly the
\* records above i, in the order of the walk, and each of their steps has
\* been applied; the awaited result is the result of
\* minimalOperationsBuilderSync on the adapter's resolved values (same
\* elements, same references, same array)
C12_SequentialSuspension ==
  (entry = "minimalOperationsBuilder" /\ ~merger) =>
    /\ pc = "await" =>
         /\ i >= 0
         /\ pending = buildOp(coreOperations[i + 1], i, 1, 0)
         /\ built = ResolvedAbove(i)
         /\ fed = built
         /\ ~state.finished
         /\ state = SyncWalkDownTo(StepBuilderState(existingOperations, 1, 0),
                                   coreOperations, Len(coreOperations) - 1, i)
    /\ pc = "loop" => pending = NoOp
    /\ pc = "done" =>
         result = minimalOperationsBuilderSync(existingOperations, coreOperations,
                                               "buildOp", 1, 0)

\* a run with a skipped record and built, reused and appended operations
C12_Witness ==
  /\ entry = "minimalOperationsBuilder" /\ ~merger /\ pc = "done"
  /\ \E k \in 1..Len(coreOperations) : coreOperations[k].skip
  /\ Len(built) >= 2
  /\ result.ref = <<1, 0, 1>>
  /\ Len(Out) >= 3
  /\ \E k \in 1..Len(Out) : Out[k].ref[1] = 0

\* ---- C13
DistinctHashes(raws) ==
  \A x, y \in 1..Len(raws) : x # y => raws[x].hash # raws[y].hash

\* C13: with a merger and raw records of pairwise distinct hashes (every
\* group has one element, which the merger returns unchanged) the awaited
\* result is the result of minimalOperationsBuilderSync on the same
\* inputs: the same operations, and the existingOperations array itself
\* when the synchronous variant returns it
C13_MergerKeepsMatching ==
  (entry = "minimalOperationsBuilder" /\ merger /\ pc = "done"
     /\ DistinctHashes(coreOperations)) =>
    result = minimalOperationsBuilderSync(existingOperations, coreOperations,
                                          "buildOp", 1, 0)

\* ---- C14
\* of the compared fields only the family resources differ
OnlyResourcesDiffer(cached, raw) ==
  LET d == AccountDiffers(cached, raw)
  IN d.resources /\ \A f \in DOMAIN d \ {"resources"} : ~d[f]

\* C14: when the cached Account and the snapshot have the same id and
\* differ only in the family resources, patchAccount returns a new Account
\* that carries the resources rebuilt from raw
C14_FamilyResourcesReachResult ==
  (pc = "patched" /\ account.id = updatedRaw.id
     /\ OnlyResourcesDiffer(account, updatedRaw)) =>
    /\ patched.ref # account.ref
    /\ patched.resources = fromResourcesRaw(updatedRaw.resources, 1)

\* the same statement for the families other than bitcoin whose resources
\* patchAccount handles
C14_OtherFamilies ==
  (pc = "patched" /\ account.id = updatedRaw.id
     /\ account.family \in SwitchFamilies \cup {"ethereum"}
     /\ OnlyResourcesDiffer(account, updatedRaw)) =>
    /\ patched.ref # account.ref
    /\ patched.resources = fromResourcesRaw(updatedRaw.resources, 1)

\* ---- C15
\* C15: for a family of the default branch whose bridge registers
\* applyReconciliation, a patchAccount call with matching id returns an
\* Account that carries the resources the capability writes for the
\* snapshot, whether or not another field was found different
C15_CapabilityAlwaysConsulted ==
  (pc = "patched" /\ account.id = updatedRaw.id
     /\ account.family \notin SwitchFamilies \cup {"bitcoin"}
     /\ HasApplyReconciliation(account.family)
     /\ applyReconciliation(account, updatedRaw)) =>
    patched.resources = fromResourcesRaw(updatedRaw.resources, 1)

\* ---- C16
\* C16: a sub-account raw record of an unrecognized type makes the call
\* fail, for patchSubAccount and for patchAccount over raw.subAccounts,
\* whether or not a cached sub-account of the same id and parentId exists
C16_MalformedTypeSurfaced ==
  /\ pc = "malformedSub" => patchedSub = ThrownSub
  /\ pc = "malformed" => patched = ThrownAccount

\* the same when no cached sub-account has the record's id and parentId,
\* or the account's id differs: the record reaches fromSubAccountRaw
C16_SurfacedWithoutCachedTwin ==
  /\ (pc = "malformedSub"
        /\ (subAccount = NoSub \/ subAccount.id # subRaw.id
              \/ subAccount.parentId # subRaw.parentId))
       => patchedSub = ThrownSub
  /\ (pc = "malformed"
        /\ \/ account.id # updatedRaw.id
           \/ \A k \in 1..Len(account.subAccounts.elems) :
                \/ account.subAccounts.elems[k].id # updatedRaw.subAccounts.elems[1].id
                \/ account.subAccounts.elems[k].parentId
                     # updatedRaw.subAccounts.elems[1].parentId)
       => patched = ThrownAccount

\* ---- C17
\* op was built (or merged) in this run from a record the adapter did not skip
NotSkipped(op) ==
  /\ op.ref[1] = 1
  /\ op.ref[3] + 1 \in 1..Len(coreOperations)
  /\ ~coreOperations[op.ref[3] + 1].skip

InSameGroup(a, b) ==
  \E g \in { merged[k] : k \in 1..Len(merged) } \cup {operationWithSameHash} :
    /\ \E x \in 1..Len(g) : g[x].ref = a.ref
    /\ \E y \in 1..Len(g) : g[y].ref = b.ref

\* C17: a record for which the adapter returns null yields no operation
\* and no call of stepBuilder; the output holds at most one operation per
\* raw record (each built operation at most once, none for a skipped
\* record); with a merger every group is of one hash, consecutive groups
\* are of different hashes, and two operations built one after the other
\* with the same hash are in one group whatever was skipped between them
C17_AdapterSkip ==
  entry # "patchAccount" =>
    /\ \A k \in 1..Len(built) : NotSkipped(built[k])
    /\ \A k \in 1..Len(fed) : NotSkipped(fed[k])
    /\ Len(fed) <= Len(built)
    /\ pc = "done" =>
         /\ \A p \in 1..Len(Out) :
              Out[p].ref[1] = 1 =>
                /\ NotSkipped(Out[p])
                /\ \A q \in 1..Len(Out) : q # p => Out[q].ref # Out[p].ref
         /\ Cardinality({ p \in 1..Len(Out) : Out[p].ref[1] = 1 }) <= Len(built)
    /\ merger =>
         /\ \A g \in 1..Len(merged) :
              \A x \in 1..Len(merged[g]) : merged[g][x].hash = merged[g][1].hash
         /\ \A g \in 1..(Len(merged) - 1) : merged[g][1].hash # merged[g + 1][1].hash
         /\ \A k \in 1..(Len(built) - 1) :
              built[k].hash = built[k + 1].hash => InSameGroup(built[k], built[k + 1])

\* a skipped record between two records of one hash, whose operations were
\* merged as one group and fed to the step builder once
C17_Witness ==
  /\ entry = "minimalOperationsBuilder" /\ merger /\ pc = "done"
  /\ \E k \in 2..(Len(coreOperations) - 1) :
       /\ coreOperations[k].skip
       /\ ~coreOperations[k - 1].skip /\ ~coreOperations[k + 1].skip
       /\ coreOperations[k - 1].hash = coreOperations[k + 1].hash
       /\ \E g \in 1..Len(merged) :
            /\ Len(merged[g]) = 2
            /\ merged[g][1].ref = <<1, 0, k>>
            /\ merged[g][2].ref = <<1, 0, k - 2>>
  /\ Len(fed) < Len(built)
  /\ Len(Out) >= 1

\* ---- C18
SubIdsOf(subs) == { subs.elems[k].id : k \in 1..Len(subs.elems) }

\* every raw member has a cached twin from which it does not differ
MembersUnchanged(cachedSubs, rawSubs) ==
  \A k \in 1..Len(rawSubs.elems) :
    \E m \in 1..Len(cachedSubs.elems) :
      /\ cachedSubs.elems[m].id = rawSubs.elems[k].id
      /\ LET d == SubDiffers(cachedSubs.elems[m], rawSubs.elems[k])
         IN \A f \in DOMAIN d : ~d[f]

MembershipReflected(cached, raw, res) ==
  /\ SubIdsOf(cached.subAccounts) # SubIdsOf(raw.subAccounts) =>
       /\ res.ref # cached.ref
       /\ SubIdsOf(res.subAccounts) = SubIdsOf(raw.subAccounts)
  /\ (cached.subAccounts # NoArray
        /\ SubIdsOf(cached.subAccounts) = SubIdsOf(raw.subAccounts)
        /\ MembersUnchanged(cached.subAccounts, raw.subAccounts)) =>
       res.subAccounts.ref = cached.subAccounts.ref

\* C18: when the ids of raw.subAccounts are not the ids of the cached
\* sub-accounts (one added, one removed, or no list in the snapshot while
\* the cache has sub-accounts) patchAccount returns a new Account whose
\* subAccounts have the raw ids; when the ids and every member are
\* unchanged the cached subAccounts array is kept
C18_MembershipChangeIsChange ==
  (pc = "patched" /\ account.id = updatedRaw.id) =>
    MembershipReflected(account, updatedRaw, patched)

\* the same for the snapshots that carry a subAccounts list
C18_WithRawList ==
  (pc = "patched" /\ account.id = updatedRaw.id /\ updatedRaw.subAccounts # NoArray) =>
    MembershipReflected(account, updatedRaw, patched)

\* ---- C19
\* the capability of the account id's family has a codec for the direction
\* of the call
HasCodec(accountId) ==
  LET family == inferFamilyFromAccountId(accountId)
  IN /\ family # Undefined
     /\ family \in DOMAIN accountByFamily
     /\ IF entry = "toOperationRaw" THEN accountByFamily[family].toOperationExtraRaw
        ELSE accountByFamily[family].fromOperationExtraRaw

Codec(e) ==
  IF entry = "toOperationRaw" THEN toOperationExtraRaw(e) ELSE fromOperationExtraRaw(e)

\* C19: toOperationRaw and fromOperationRaw return the converted operation
\* in every case; when the family of the account id is unknown, registers
\* no capability, or its capability has no codec for the direction, an
\* extra that is present is returned as it is; the codec is applied
\* exactly when extra is present and the capability has it (an absent
\* extra is never decoded: it stays absent in toOperationRaw and reads as
\* the empty extra in fromOperationRaw)
C19_CapabilityAbsentPassThrough ==
  pc = "converted" =>
    /\ converted.accountId = operation.accountId
    /\ converted.op = IF entry = "toOperationRaw" THEN toOperationRaw(operation.op)
                      ELSE fromOperationRaw(operation.op, 0, 1, 0)
    /\ (operation.extra # NoExtra /\ ~HasCodec(operation.accountId))
         => converted.extra = operation.extra
    /\ (operation.extra # NoExtra /\ HasCodec(operation.accountId))
         => converted.extra = Codec(operation.extra)
    /\ operation.extra = NoExtra
         => converted.extra = IF entry = "toOperationRaw" THEN NoExtra ELSE EmptyExtra

\* an extra handed to fromOperationRaw for a family whose capability has
\* an encoder but no decoder
C19_Witness ==
  /\ pc = "converted" /\ entry = "fromOperationRaw"
  /\ inferFamilyFromAccountId(operation.accountId) = "algorand"
  /\ operation.extra \in Extras
  /\ converted.extra = operation.extra
  /\ converted.op.ref[1] = 1

\* ---- C20
\* a call of stepBuilder has just been made: the operation it was handed
Stepped == fed' # fed
SteppedOp == fed'[Len(fed')]
\* the cached operation of the same id the call found, NoOp if none
SteppedMatch == findExistingOp(state.existingOps, SteppedOp)

\* one call of stepBuilder, as far as the one-shot comparison goes
OneShotStep ==
  /\ state.immutableOpCmpDoneOnce => state'.immutableOpCmpDoneOnce
  /\ state'.cmp \in {state.cmp, state.cmp + 1}
  /\ state'.warned \in {state.warned, state.warned + 1}
  /\ (state'.immutableOpCmpDoneOnce /\ ~state.immutableOpCmpDoneOnce)
       => /\ Stepped
          /\ SteppedMatch # NoOp
          /\ SteppedMatch.blockHeight = SteppedOp.blockHeight
          /\ state'.cmp = state.cmp + 1
  /\ (Stepped /\ ~state.immutableOpCmpDoneOnce /\ SteppedMatch # NoOp)
       => IF SteppedMatch.blockHeight = SteppedOp.blockHeight
          THEN /\ state'.immutableOpCmpDoneOnce
               /\ state'.cmp = state.cmp + 1
               /\ state'.warned = state.warned
                                  + (IF sameOp(SteppedMatch, SteppedOp) THEN 0 ELSE 1)
          ELSE /\ ~state'.immutableOpCmpDoneOnce
               /\ state'.cmp = state.cmp /\ state'.warned = state.warned
               /\ state'.operations = Push(state.operations, SteppedOp)
               /\ state'.existingOps = state.existingOps
  /\ (state.immutableOpCmpDoneOnce \/ (Stepped /\ SteppedMatch = NoOp))
       => state'.cmp = state.cmp /\ state'.warned = state.warned
  /\ state'.warned > state.warned
       => state'.existingOps.elems = <<>> /\ state'.cmp > state.cmp

\* C20: in a builder run sameOp is evaluated at most once and the stale
\* cache recovery (warning and clearing of the cache window) happens at
\* most once; immutableOpCmpDoneOnce goes from false to true at most once
\* and never back; it is set by the first call whose operation has a cached
\* operation of its id with the same blockHeight, and a match whose
\* blockHeight differs pushes the new operation and leaves the flag unset
C20_OneShotImmutabilityCheck ==
  /\ [](/\ state.cmp <= 1
        /\ state.warned <= state.cmp
        /\ state.immutableOpCmpDoneOnce <=> state.cmp = 1)
  /\ [][OneShotStep]_vars

\* a match of differing blockHeight first, then the one comparison, which
\* fails and clears the cache window; the run goes on to its end
C20_Witness ==
  /\ pc = "done" /\ Len(fed) >= 3
  /\ findExistingOp(existingOperations, fed[1]) # NoOp
  /\ findExistingOp(existingOperations, fed[1]).blockHeight # fed[1].blockHeight
  /\ findExistingOp(existingOperations, fed[2]) # NoOp
  /\ findExistingOp(existingOperations, fed[2]).blockHeight = fed[2].blockHeight
  /\ state.immutableOpCmpDoneOnce /\ state.cmp = 1 /\ state.warned = 1

\* ---- C21
\* the operation handed to the step has a cached operation of its id and
\* its blockHeight that sameOp tells apart
StaleTwin(op) ==
  LET twin == findExistingOp(existingOperations, op)
  IN twin # NoOp /\ twin.blockHeight = op.blockHeight /\ ~sameOp(twin, op)

Repaired(op) ==
  /\ \E m \in 1..Len(Out) : Out[m] = op
  /\ \A m \in 1..Len(Out) : Out[m].ref # findExistingOp(existingOperations, op).ref

\* C21: every operation built from raw and handed to the step that has a
\* stale cached twin (same id, same blockHeight, sameOp false), whether it
\* is the first match of the walk or a later one, is in the output, and
\* the stale cached object is not
C21_StaleOperationRepaired ==
  pc = "done" => \A k \in 1..Len(fed) : StaleTwin(fed[k]) => Repaired(fed[k])

\* an operation handed to the step before fed[k] had a cached twin of its
\* blockHeight
ComparedBefore(k) ==
  \E m \in 1..(k - 1) :
    LET twin == findExistingOp(existingOperations, fed[m])
    IN twin # NoOp /\ twin.blockHeight = fed[m].blockHeight

\* the stale cached twin of op is in the output and op is not
StaleKept(op) ==
  /\ \E m \in 1..Len(Out) : Out[m].ref = findExistingOp(existingOperations, op).ref
  /\ \A m \in 1..Len(Out) : Out[m] # op

\* the first operation of the walk that has a cached twin of its
\* blockHeight is the one compared: if its twin is stale it is repaired,
\* and so is every later one, the cache window being cleared; if its twin
\* passes sameOp, a later operation with a stale twin is not compared and
\* the output keeps the stale cached object
C21_FirstMatchRepaired ==
  pc = "done" =>
    \A k \in 1..Len(fed) :
      StaleTwin(fed[k]) =>
        /\ (~ComparedBefore(k) \/ state.warned = 1) => Repaired(fed[k])
        /\ (ComparedBefore(k) /\ state.warned = 0) => StaleKept(fed[k])

\* a stale twin met as the first match, after an operation the cache does
\* not hold, repaired with the rest of the walk
C21_Witness ==
  /\ pc = "done" /\ Len(fed) >= 3
  /\ findExistingOp(existingOperations, fed[1]) = NoOp
  /\ StaleTwin(fed[2]) /\ Repaired(fed[2])
  /\ findExistingOp(existingOperations, fed[3]) # NoOp
  /\ Out = fed

\* ---- C22
BuilderRun ==
  entry \in {"patchOperations", "minimalOperationsBuilderSync", "minimalOperationsBuilder"}

\* the index the step is called with: the loop index, 0 for the flush
SteppedIndex == IF i < 0 THEN 0 ELSE i
\* the call reaches line 527 with a cached operation: it is not taken by the
\* one-shot block (differing blockHeight, or sameOp failing)
SteppedReachesMatch ==
  /\ Stepped
  /\ SteppedMatch # NoOp
  /\ \/ state.immutableOpCmpDoneOnce
     \/ /\ SteppedMatch.blockHeight = SteppedOp.blockHeight
        /\ sameOp(SteppedMatch, SteppedOp)
SteppedRest ==
  SliceFrom(state.existingOps, IndexOf(state.existingOps, SteppedMatch))

\* what is left of the run: one return, and per record one call and one
\* resumption
Remaining ==
  IF pc = "done" THEN 0
  ELSE IF pc = "start" THEN 2 * Len(coreOperations) + 2
  ELSE 2 * (i + 1) + (IF pc = "loop" THEN 1 ELSE 0)

EarlyStopStep ==
  BuilderRun =>
    /\ Remaining' < Remaining
    /\ state.finished => state'.finished
    /\ (SteppedReachesMatch /\ Len(SteppedRest) <= SteppedIndex + 1)
         => /\ state'.finished
            /\ pc' = "done"
            /\ i' = i
            /\ result' = state'.operations
            /\ result'.elems = state.operations.elems \o SteppedRest
            /\ calls' = calls \/ (pc = "loop" /\ calls' = Append(calls, i))
    /\ (state'.finished /\ ~state.finished)
         => SteppedReachesMatch /\ Len(SteppedRest) <= SteppedIndex + 1

\* C22: a step that reaches a cached match at position j with
\* rest.length <= i + 1 stops the walk: finished becomes true and stays
\* true, the builder returns at once the pushed operations followed by the
\* elements of rest themselves, and no record older than the current one is
\* ever handed to the adapter; every run ends, after at most
\* coreOperations.length adapter calls
C22_EarlyTermination ==
  /\ [][EarlyStopStep]_vars
  /\ [](BuilderRun =>
          /\ pc # "done" => ENABLED (Start \/ SyncStep \/ SyncReturn \/ AsyncCall
                                       \/ AsyncResume \/ AsyncReturn)
          /\ Len(calls) <= Len(coreOperations)
          /\ \A k \in 1..Len(calls) : calls[k] = Len(coreOperations) - k
          /\ state.finished =>
               /\ pc = "done" /\ result = state.operations
               /\ \A k \in 1..Len(calls) : calls[k] >= i
               /\ pending = NoOp)

\* a walk stopped at its second record, two older records never built, the
\* suffix of the cache appended to a new operation
C22_Witness ==
  /\ pc = "done" /\ state.finished /\ entry = "minimalOperationsBuilderSync"
  /\ Len(coreOperations) = 3 /\ i = 1 /\ calls = <<2, 1>>
  /\ Len(Cached) = 2 /\ result.ref # existingOperations.ref
  /\ Len(Out) = 3
  /\ Out[2].ref = Cached[1].ref /\ Out[3].ref = Cached[2].ref

\* ---- C23
\* the built operations are k operations the cache does not hold, then
\* cached operations in their cached order, each unaltered: the cached
\* list with some operations removed and k new ones in front; the adapter
\* skips no record
RemovedAndPrepended(k, w) ==
  /\ k \in 0..Len(w)
  /\ Len(w) = Len(coreOperations)
  /\ \A m, n \in 1..Len(w) : m # n => w[m].id # w[n].id
  /\ \A m \in 1..k : w[m].id \notin IdsOf(Cached)
  /\ \A m \in (k + 1)..Len(w) :
       /\ w[m].id \in IdsOf(Cached)
       /\ Unaltered(Cached[PosOf(Cached, w[m].id)], w[m])
  /\ \A m, n \in (k + 1)..Len(w) :
       m < n => PosOf(Cached, w[m].id) < PosOf(Cached, w[n].id)

NewCount(w) == Cardinality({ m \in 1..Len(w) : w[m].id \notin IdsOf(Cached) })

DroppedAndKept(k, w) ==
  /\ Len(Out) = Len(w)
  /\ \A m \in 1..Len(w) : Out[m].id = w[m].id
  /\ \A m \in 1..k : Out[m] = w[m]
  /\ \A m \in (k + 1)..Len(w) : Out[m].ref = Cached[PosOf(Cached, w[m].id)].ref

\* C23: when the operations built from raw are the cached list with any
\* set of operations removed and any number of new operations in front,
\* every survivor unaltered, the output has exactly the ids of raw in the
\* order of raw, and every survivor in it is the cached object (with a
\* merger: when no two built operations share a hash, so that the merger
\* returns each of them as it is)
C23_RemovedOperationsDropped ==
  (pc = "done" /\ BuilderRun) =>
    LET w == Walk
    IN (RemovedAndPrepended(NewCount(w), w)
        /\ (merger => \A m, n \in 1..Len(w) : m # n => w[m].hash # w[n].hash))
         => DroppedAndKept(NewCount(w), w)

\* the middle one of three cached operations is gone and a new operation
\* came: the partial guarantee branch keeps the newest cached object, the
\* walk goes on and ends by appending the oldest
C23_Witness ==
  /\ pc = "done" /\ ~merger /\ Len(Cached) = 3
  /\ RemovedAndPrepended(1, Walk) /\ Len(Walk) = 3
  /\ Walk[2].id = Cached[1].id /\ Walk[3].id = Cached[3].id
  /\ Out[2].ref = Cached[1].ref /\ Out[3].ref = Cached[3].ref
  /\ Len(fed) = 3

\* ---- C24
\* the maximal runs of consecutive operations of one hash
RECURSIVE MaximalRuns(_)
MaximalRuns(ops) ==
  IF Len(ops) = 0 THEN <<>>
  ELSE LET prev == MaximalRuns(SubSeq(ops, 1, Len(ops) - 1))
           op == ops[Len(ops)]
       IN IF Len(prev) > 0 /\ prev[Len(prev)][1].hash = op.hash
          THEN [prev EXCEPT ![Len(prev)] = Append(@, op)]
          ELSE Append(prev, <<op>>)

\* the flush after the loop has run
Flushed == pc = "done" /\ i < 0 /\ Len(operationWithSameHash) > 0

\* C24: with a merger, the groups handed to the merger are the maximal
\* runs of same-hash operations among the built operations, in walk order,
\* one call per run (the run still accumulating is handed over by the
\* flush after the loop); the merged results are what the step is fed, in
\* that order; and when the walk is not stopped early the output has one
\* operation per run, so every built operation is in exactly one group of
\* the output
C24_MergerGrouping ==
  (merger /\ pc \in {"loop", "await", "done"}) =>
    /\ MaximalRuns(built) =
         IF Flushed \/ Len(operationWithSameHash) = 0 THEN merged
         ELSE Append(merged, operationWithSameHash)
    /\ Len(fed) = Len(merged)
    /\ \A k \in 1..Len(merged) : fed[k] = mergeSameHashOps(merged[k], 1, 0)
    /\ (pc = "done" /\ ~state.finished) =>
         /\ merged = MaximalRuns(built)
         /\ Len(Out) = Len(merged)
         /\ \A k \in 1..Len(Out) : Out[k].id = merged[k][1].id

\* a run of two operations of one hash, then a run of one, merged in two
\* calls, the second by the flush; the walk is not stopped
C24_Witness ==
  /\ merger /\ Flushed /\ ~state.finished
  /\ Len(built) = 3 /\ Len(merged) = 2
  /\ Len(merged[1]) = 2 /\ Len(merged[2]) = 1
  /\ merged[1][1].id # merged[1][2].id
  /\ Len(Out) = 2

\* ---- C25
DistinctIds(ops) == \A m, n \in 1..Len(ops) : m # n => ops[m].id # ops[n].id

\* C25: when the cached ids are pairwise distinct, the ids of the
\* operations built from raw are pairwise distinct, and both lists agree
\* on the order of the ids they share, the output of any run has pairwise
\* distinct ids
C25_NoDuplicatedOperation ==
  (pc = "done" /\ BuilderRun) =>
    LET w == Walk
    IN (DistinctIds(Cached) /\ DistinctIds(w) /\ OrdersAgree(w)) => DistinctIds(Out)

\* a run through the blockHeight-differs branch and then the early stop
\* that appends the cached suffix behind the new operation
C25_Witness ==
  /\ pc = "done" /\ BuilderRun /\ state.finished
  /\ DistinctIds(Cached) /\ DistinctIds(Walk) /\ OrdersAgree(Walk)
  /\ Len(Cached) = 3 /\ Len(Out) = 3 /\ Len(fed) = 2
  /\ Out[1].ref[1] = 1 /\ Out[1].id = Cached[1].id
  /\ Out[2].ref = Cached[2].ref
  /\ Out[3].ref = Cached[3].ref
  /\ result.ref # existingOperations.ref

\* ---- C26
\* C26: with no cached operation and no raw record the builder returns the
\* existingOperations array itself; with cached operations and no built
\* operation (no raw record, or every record skipped) it returns an empty
\* array that is not the cached one, and patchAccount, handed an emptied
\* raw list, returns a new account with that empty list; with no cached
\* operation the output is the operations handed to the step, in walk
\* order: the built operations, merged by hash when a merger is supplied
C26_EmptyInputs ==
  /\ (pc = "done" /\ BuilderRun) =>
       /\ (Len(Cached) = 0 /\ Len(coreOperations) = 0) => result = existingOperations
       /\ (Len(Cached) > 0 /\ Len(Walk) = 0)
            => Out = <<>> /\ result.ref # existingOperations.ref
       /\ Len(Cached) = 0 =>
            /\ Out = fed
            /\ ~merger => Out = Walk
            /\ Len(coreOperations) > 0 => result.ref # existingOperations.ref
  /\ (pc = "patched" /\ updatedRaw.id = account.id
      /\ Len(account.pendingOperations.elems) > 0
      /\ Len(updatedRaw.pendingOperations) = 0) =>
       /\ patched.pendingOperations.elems = <<>>
       /\ patched.pendingOperations.ref # account.pendingOperations.ref
       /\ patched.ref # account.ref

\* every record of a non-empty raw sequence skipped, against a cache of two
C26_Witness ==
  /\ pc = "done" /\ BuilderRun
  /\ Len(Cached) = 2 /\ Len(coreOperations) = 1 /\ Len(Walk) = 0
  /\ calls = <<0>>
  /\ Out = <<>> /\ result.ref = <<1, 0, 0>>

\* ---- C27
\* the candidate replaces the cached history: the snapshot has one and it
\* differs at the HOUR resolution
Refreshes(cached, raw) ==
  /\ raw.balanceHistoryCache # NoCache
  /\ HourDiffers(cached.balanceHistoryCache, raw.balanceHistoryCache)

\* the snapshot without its balanceHistoryCache
WithoutHistory(raw) == [raw EXCEPT !.balanceHistoryCache = NoCache]

\* the candidate differs from the cached history somewhere the HOUR check
\* does not look: an older HOUR value, or the DAY resolution
DiffersUnseen(cached, raw) ==
  /\ raw.balanceHistoryCache # NoCache
  /\ ~HourDiffers(cached.balanceHistoryCache, raw.balanceHistoryCache)
  /\ \/ cached.balanceHistoryCache.HOUR # raw.balanceHistoryCache.HOUR
     \/ cached.balanceHistoryCache.DAY # raw.balanceHistoryCache.DAY

\* C27: in patchAccount and patchSubAccount, when the snapshot has no
\* balanceHistoryCache or the HOUR check reports no difference (whatever
\* else differs in the candidate), the result keeps the cached
\* balanceHistoryCache object and is what the patcher returns for the
\* snapshot without a candidate; when the check reports a difference the
\* result is a new object whose balanceHistoryCache is the candidate
\* object, all resolutions
C27_HistoryAllOrNothing ==
  /\ (pc = "patched" /\ account.id = updatedRaw.id) =>
       IF Refreshes(account, updatedRaw)
       THEN /\ patched.balanceHistoryCache = updatedRaw.balanceHistoryCache
            /\ patched.ref # account.ref
       ELSE /\ patched.balanceHistoryCache = account.balanceHistoryCache
            /\ patched = patchAccount(account, WithoutHistory(updatedRaw), 1)
  /\ (pc = "sub" /\ subAccount # NoSub /\ subAccount.id = subRaw.id
      /\ subAccount.parentId = subRaw.parentId) =>
       IF Refreshes(subAccount, subRaw)
       THEN /\ patchedSub.balanceHistoryCache = subRaw.balanceHistoryCache
            /\ patchedSub.ref # subAccount.ref
       ELSE /\ patchedSub.balanceHistoryCache = subAccount.balanceHistoryCache
            /\ patchedSub = patchSubAccount(subAccount, WithoutHistory(subRaw), 1, 10)

\* a candidate that differs from the cached history only in an older HOUR
\* value: nothing is replaced and the cached account is returned
C27_Witness ==
  /\ pc = "patched" /\ account.id = updatedRaw.id
  /\ DiffersUnseen(account, updatedRaw)
  /\ account.balanceHistoryCache.HOUR # updatedRaw.balanceHistoryCache.HOUR
  /\ patched.balanceHistoryCache.ref = account.balanceHistoryCache.ref
  /\ patched.ref = account.ref

====
